---- MODULE Spec2Model ----
(***************************************************************************)
(* A model of the rust-lpwan stack: the radio base (src/base.rs), the      *)
(* 802.15.4 MAC engine (src/mac_802154/mod.rs, config.rs, packet.rs) and   *)
(* the 6LoWPAN fragmentation manager (src/sixlo/frag.rs).                  *)
(*                                                                         *)
(* The MAC is one record `mac` holding the fields of struct Mac; every     *)
(* function of the source is an operator of the same name that maps a      *)
(* context [m, err, handed, accepted] to the context after the call: m is  *)
(* the Mac, err the Result the call returned ("Ok" or the CoreError), and  *)
(* handed the frames given to Radio::start_transmit.  A `?` in the source  *)
(* is the test err = "Ok" before the next step.  The context also lists    *)
(* the calls made on the radio driver and says whether the driver answers  *)
(* them with an error.                                                     *)
(***************************************************************************)
EXTENDS Integers, Sequences, FiniteSets, TLC

VARIABLES
    base,     \* BaseState of a struct Base of base.rs used on its own
    bev,      \* observation of the last call on that Base
    core,     \* struct Core<R, T, B, CsmaMode> of mac/core.rs and mac/csma.rs
    cev,      \* observation of the last call on that Core
    mac,      \* struct Mac of mac_802154/mod.rs (with its Base and Config)
    now,      \* the value Timer::ticks_ms() returned to the last call
    ev,       \* observation of the last call: its result and what it did
    csma_log, \* observation: the sequence numbers of the frames given to CSMA
    frag_a,   \* struct Frag of sixlo/frag.rs, the sending manager
    frag_b,   \* struct Frag of sixlo/frag.rs, the receiving manager
    fev,      \* observation of the last call of a Frag method
    flog      \* observation: the datagram sent, the fragments polled from
              \* frag_a, which of them frag_b received, what frag_b popped

macvars == <<mac, ev, csma_log>>
fragvars == <<frag_a, frag_b, fev, flog>>
basevars == <<base, bev>>
corevars == <<core, cev>>
vars == <<mac, now, ev, csma_log, frag_a, frag_b, fev, flog, base, bev, core, cev>>

(***************************************************************************)
(* Addresses (ieee802154::mac::Address)                                    *)
(***************************************************************************)
BROADCAST_PAN == 65535
BROADCAST_SHORT == 65535

AddrNone == [kind |-> "None", pan |-> 0, addr |-> 0]
Short(pan, a) == [kind |-> "Short", pan |-> pan, addr |-> a]
Extended(pan, a) == [kind |-> "Extended", pan |-> pan, addr |-> a]
BroadcastShort == Short(BROADCAST_PAN, BROADCAST_SHORT)

(***************************************************************************)
(* Config (mac_802154/config.rs)                                           *)
(***************************************************************************)
ON_DEMAND == 15

DefaultConfig ==
    [ pan_coordinator |-> FALSE,
      pan_id |-> 256,
      base_superframe_duration |-> 1000,
      base_slot_duration |-> 100,
      mac_beacon_order |-> 1,
      mac_superframe_order |-> 0,
      mac_deadline |-> 10,
      max_beacon_misses |-> 10,
      assoc_timeout |-> 10000,
      battery_life_extension |-> TRUE,
      max_retries |-> 5,
      ack_delay |-> 50,
      min_be |-> 2,
      max_be |-> 5,
      csma_max_backoffs |-> 3,
      channel_clear_threshold |-> -50 ]

Pow2(n) == IF n = 0 THEN 1 ELSE 2 ^ n

superframe_duration(cfg) ==
    IF cfg.mac_beacon_order # ON_DEMAND
    THEN cfg.base_superframe_duration * Pow2(cfg.mac_beacon_order)
    ELSE 0

superframe_spec(cfg) ==
    [ beacon_order |-> cfg.mac_beacon_order,
      superframe_order |-> cfg.mac_superframe_order,
      pan_coordinator |-> cfg.pan_coordinator,
      battery_life_extension |-> FALSE,
      association_permit |-> TRUE,
      final_cap_slot |-> 0 ]

slots_per_slotframe(cfg) == cfg.base_superframe_duration \div cfg.base_slot_duration

calculate_asn(cfg, t, offset) == (t + offset) \div cfg.base_slot_duration

calculate_rsn(cfg, t, offset) == calculate_asn(cfg, t, offset) % slots_per_slotframe(cfg)

(***************************************************************************)
(* Packets (mac_802154/packet.rs).  The header keeps the fields the MAC    *)
(* reads; the others are the same constants in every constructor.          *)
(***************************************************************************)
NoContent == [kind |-> "Data", spec |-> superframe_spec(DefaultConfig),
              cmd |-> "None", assoc_addr |-> 0, status |-> "None"]

Packet_beacon(source, seq, spec) ==
    [ frame_type |-> "Beacon", ack_request |-> FALSE,
      destination |-> BroadcastShort, source |-> source, seq |-> seq,
      content |-> [NoContent EXCEPT !.kind = "Beacon", !.spec = spec],
      payload |-> <<>> ]

Packet_command(dest, source, seq, cmd, assoc_addr, status) ==
    [ frame_type |-> "MacCommand", ack_request |-> TRUE,
      destination |-> dest, source |-> source, seq |-> seq,
      content |-> [NoContent EXCEPT !.kind = "Command", !.cmd = cmd,
                                    !.assoc_addr = assoc_addr, !.status = status],
      payload |-> <<>> ]

Packet_data(dest, source, seq, data, ack) ==
    [ frame_type |-> "Data", ack_request |-> ack,
      destination |-> dest, source |-> source, seq |-> seq,
      content |-> NoContent,
      payload |-> data ]

Packet_ack(request) ==
    [ frame_type |-> "Acknowledgement", ack_request |-> FALSE,
      destination |-> request.source, source |-> request.destination,
      seq |-> request.seq,
      content |-> [NoContent EXCEPT !.kind = "Acknowledgement"],
      payload |-> <<>> ]

Packet_pan_id(p) ==
    IF p.destination.kind # "None" THEN p.destination.pan
    ELSE IF p.source.kind # "None" THEN p.source.pan
    ELSE 65534

\* is_ack_for without the comparison of the ACK's source
is_ack_for_any_source(p, original) ==
    /\ p.frame_type = "Acknowledgement"
    /\ p.destination = original.source
    /\ p.seq = original.seq
    /\ p.content.kind = "Acknowledgement"

is_ack_for(p, original) ==
    /\ p.frame_type = "Acknowledgement"
    /\ p.source = original.destination
    /\ p.destination = original.source
    /\ p.seq = original.seq
    /\ p.content.kind = "Acknowledgement"

NoPacket == Packet_data(AddrNone, AddrNone, 0, <<>>, FALSE)

(***************************************************************************)
(* heapless::spsc::Queue<_, U16>: enqueue fails when the queue is full     *)
(***************************************************************************)
QUEUE_CAPACITY == 16

QueueFull(q) == Len(q) >= QUEUE_CAPACITY

\* a queue declared with twice the capacity (U32)
enqueue_U32(q, item) == IF Len(q) >= 2 * QUEUE_CAPACITY THEN q ELSE Append(q, item)

enqueue(q, item) == IF QueueFull(q) THEN q ELSE Append(q, item)

dequeue(q) == IF q = <<>> THEN q ELSE Tail(q)

TxState_default == [pending |-> TRUE, retries |-> 0]

(***************************************************************************)
(* Radio base (base.rs)                                                    *)
(***************************************************************************)
Base_is_busy(state) == state \notin {"Idle", "Sleeping", "Listening"}

\* a call on the radio driver: it is listed in c.radio and, when the driver
\* fails, ends the Base method with CoreError::Radio
RadioCall(c, name) ==
    IF c.fail THEN [c EXCEPT !.radio = Append(@, name), !.err = "Radio"]
    ELSE [c EXCEPT !.radio = Append(@, name)]

Base_sleep(c) ==
    IF Base_is_busy(c.m.base)
    THEN [c EXCEPT !.err = "Busy"]
    ELSE IF c.fail THEN RadioCall(c, "set_state")
    ELSE [RadioCall(c, "set_state") EXCEPT !.m.base = "Sleeping"]

Base_transmit(c, frame) ==
    IF Base_is_busy(c.m.base)
    THEN [c EXCEPT !.err = "Busy"]
    ELSE IF c.fail THEN RadioCall(c, "start_transmit")
    ELSE [RadioCall(c, "start_transmit") EXCEPT
              !.m.base = "Transmitting", !.handed = Append(@, frame)]

\* receive without the test of is_busy
Base_receive_unchecked(c) ==
    IF c.fail THEN RadioCall(c, "start_receive")
    ELSE [RadioCall(c, "start_receive") EXCEPT !.m.base = "Listening"]

Base_receive(c) ==
    IF Base_is_busy(c.m.base)
    THEN [c EXCEPT !.err = "Busy"]
    ELSE IF c.fail THEN RadioCall(c, "start_receive")
    ELSE [RadioCall(c, "start_receive") EXCEPT !.m.base = "Listening"]

\* rssi() returns Busy or the value polled from the radio; no state changes
Base_rssi(c) ==
    IF Base_is_busy(c.m.base) THEN [c EXCEPT !.err = "Busy"]
    ELSE RadioCall(c, "poll_rssi")

NoRx == [some |-> FALSE, decodable |-> TRUE, packet |-> NoPacket, rssi |-> 0]

\* check_receive: io.rx is what Radio::check_receive and get_received report
check_receive(c, io) ==
    IF c.fail \/ ~io.rx.some
    THEN [c |-> RadioCall(c, "check_receive"), rx |-> NoRx]
    ELSE [c |-> [RadioCall(RadioCall(RadioCall(c, "check_receive"), "get_received"),
                           "start_receive") EXCEPT !.m.base = "Listening"],
          rx |-> io.rx]

\* check_transmit with a completed transmission leaving the state as it is
check_transmit_stay(c, io) ==
    IF c.fail \/ ~io.tx_done
    THEN [c |-> RadioCall(c, "check_transmit"), rx |-> NoRx]
    ELSE [c |-> RadioCall(RadioCall(c, "check_transmit"), "start_receive"), rx |-> NoRx]

\* check_transmit: io.tx_done is what Radio::check_transmit reports
check_transmit(c, io) ==
    IF c.fail \/ ~io.tx_done
    THEN [c |-> RadioCall(c, "check_transmit"), rx |-> NoRx]
    ELSE [c |-> [RadioCall(RadioCall(c, "check_transmit"), "start_receive")
                    EXCEPT !.m.base = "Listening"],
          rx |-> NoRx]

\* tick(): the context afterwards and the packet returned
Base_tick(c, io) ==
    CASE c.m.base \in {"Listening", "Receiving"} -> check_receive(c, io)
      [] c.m.base = "Transmitting" -> check_transmit(c, io)
      [] OTHER -> [c |-> c, rx |-> NoRx]

(***************************************************************************)
(* MAC engine (mac_802154/mod.rs)                                          *)
(***************************************************************************)
Unsynced == [synced |-> FALSE, parent |-> AddrNone]
Synced(parent) == [synced |-> TRUE, parent |-> parent]

Unassociated == [kind |-> "Unassociated", parent |-> AddrNone, expiry |-> 0, pan |-> 0]
AssocPending(parent, expiry) ==
    [kind |-> "Pending", parent |-> parent, expiry |-> expiry, pan |-> 0]
Associated(pan) == [kind |-> "Associated", parent |-> AddrNone, expiry |-> 0, pan |-> pan]

CsmaNone == [pending |-> FALSE, packet |-> NoPacket, tx_slot |-> 0, retries |-> 0]
CsmaPending(packet, tx_slot, retries) ==
    [pending |-> TRUE, packet |-> packet, tx_slot |-> tx_slot, retries |-> retries]

AckNone == [pending |-> FALSE, packet |-> NoPacket, tx_time |-> 0]
AckPending(packet, tx_time) == [pending |-> TRUE, packet |-> packet, tx_time |-> tx_time]

MacStats_new ==
    [deadline_miss_tx |-> 0, deadline_miss_ack |-> 0, csma_cca_fail |-> 0,
     tx_fail |-> 0, sync_fail |-> 0]

\* Mac::new: the state after construction at timer value t0
Mac_new(address, config, t0) ==
    [ address |-> address,
      short_addr |-> [some |-> FALSE, v |-> 0],
      config |-> config,
      base |-> "Listening",
      seq |-> 0,
      sync_offset |-> t0,
      last_asn |-> 0,
      next_beacon |-> IF config.pan_coordinator /\ config.mac_beacon_order # ON_DEMAND
                      THEN t0 + superframe_duration(config) ELSE 0,
      beacon_miss_count |-> 0,
      sync_state |-> Unsynced,
      assoc_state |-> IF config.pan_coordinator THEN Associated(config.pan_id)
                      ELSE Unassociated,
      csma_state |-> CsmaNone,
      ack_state |-> AckNone,
      stats |-> MacStats_new,
      rx_buff |-> <<>>,
      tx_buff |-> <<>> ]

addr(m) ==
    IF m.short_addr.some THEN Short(m.config.pan_id, m.short_addr.v)
    ELSE Extended(m.config.pan_id, m.address)

\* seq(): the value returned is m.seq, the Mac afterwards is seq_next(m)
\* seq() with saturating_add in place of wrapping_add
seq_next_saturating(m) == [m EXCEPT !.seq = IF m.seq = 255 THEN 255 ELSE m.seq + 1]

seq_next(m) == [m EXCEPT !.seq = (m.seq + 1) % 256]

\* the context of one call: the Mac, the error raised so far, the frames handed
\* to the radio, whether a received frame passed the filters and the frames
\* built with a number taken from seq()
Ctx(m) ==
    [m |-> m, err |-> "Ok", handed |-> <<>>, accepted |-> FALSE, created |-> <<>>,
     radio |-> <<>>, fail |-> FALSE]

\* transmit(): builds the Data frame, enqueues it and returns Ok(()) whether or
\* not the enqueue succeeded (the Err of enqueue is only logged)
Mac_transmit(m, dest, data, ack) ==
    LET packet == Packet_data(dest, addr(m), m.seq, data, ack)
        m1 == seq_next(m)
    IN  [ m |-> [m1 EXCEPT !.tx_buff = enqueue(@, [state |-> TxState_default, packet |-> packet])],
          result |-> "Ok",
          packet |-> packet ]

\* receive(): pops the RX queue
Mac_receive(m) ==
    IF m.rx_buff = <<>>
    THEN [m |-> m, some |-> FALSE, payload |-> <<>>, source |-> AddrNone]
    ELSE [m |-> [m EXCEPT !.rx_buff = dequeue(@)], some |-> TRUE,
          payload |-> Head(m.rx_buff).packet.payload,
          source |-> Head(m.rx_buff).info.source]

\* busy(): Queue::capacity() is the constant capacity of the queue, so the
\* last disjunct compares QUEUE_CAPACITY with 0
Mac_busy(m) ==
    \/ m.csma_state # CsmaNone
    \/ m.ack_state # AckNone
    \/ m.assoc_state.kind # "Associated"
    \/ QUEUE_CAPACITY = 0

\* the PAN filter without the Associated arm: every PAN passes
pan_filter_unassociated_only(m, p) ==
    \/ Packet_pan_id(p) = BROADCAST_PAN
    \/ m.assoc_state.kind \in {"Unassociated", "Pending", "Associated"}

\* handle_received, the PAN filter (lines 624-634)
pan_filter_pass(m, p) ==
    \/ Packet_pan_id(p) = BROADCAST_PAN
    \/ ~(m.assoc_state.kind = "Associated" /\ Packet_pan_id(p) # m.assoc_state.pan)

\* handle_received, the address filter (lines 636-648)
addr_filter_pass(m, p) ==
    \/ p.destination.kind = "Short" /\ p.destination.addr = BROADCAST_SHORT
    \/ p.destination.kind = "Short" /\ m.short_addr.some /\ p.destination.addr = m.short_addr.v
    \/ p.destination.kind = "Extended" /\ p.destination.addr = m.address

\* handle_received, arming the ACK (lines 650-661)
arm_ack(m, t, p) ==
    IF p.ack_request
    THEN [m EXCEPT !.ack_state = AckPending(Packet_ack(p), t + m.config.ack_delay)]
    ELSE m

\* the i64 remainder of Rust: the sign follows the dividend
RemI64(a, b) == IF a >= 0 THEN a % b ELSE -((-a) % b)

Abs(x) == IF x < 0 THEN -x ELSE x

\* handle_received, FrameContent::Beacon (lines 665-732)
\* the Beacon arm keeping the next beacon time it had
rx_beacon_keep_next(m, t, p) ==
    IF m.config.pan_coordinator THEN m
    ELSE IF m.sync_state = Unsynced
    THEN [m EXCEPT !.sync_state = Synced(p.source),
                   !.sync_offset = t,
                   !.beacon_miss_count = 0]
    ELSE m

rx_beacon(m, t, p) ==
    IF m.config.pan_coordinator THEN m
    ELSE IF m.sync_state = Unsynced
    THEN [m EXCEPT !.sync_state = Synced(p.source),
                   !.sync_offset = t,
                   !.next_beacon = t + superframe_duration(m.config),
                   !.beacon_miss_count = 0]
    ELSE IF p.source # m.sync_state.parent THEN m
    ELSE LET sd == superframe_duration(m.config)
             delta == RemI64(t - m.next_beacon, sd)
             off == IF Abs(delta) > sd \div 10 THEN m.sync_offset
                    ELSE IF delta < 0 THEN m.sync_offset - (Abs(delta) \div 2)
                    ELSE m.sync_offset + (Abs(delta) \div 2)
         IN  [m EXCEPT !.sync_offset = off,
                       !.next_beacon = t + sd,
                       !.beacon_miss_count = 0]

\* handle_received, Command::AssociationRequest (lines 736-756)
assoc_response(m, p) ==
    Packet_command(p.source, addr(m), m.seq, "AssociationResponse", 65534, "Successful")

rx_assoc_request(m, p) ==
    [seq_next(m) EXCEPT !.tx_buff = enqueue(@, [state |-> TxState_default,
                                                packet |-> assoc_response(m, p)])]

\* handle_received, Command::AssociationResponse (lines 757-783)
\* the AssociationResponse arm without the comparison with the parent
rx_assoc_response_any_source(m, p) ==
    IF m.assoc_state.kind \in {"Unassociated", "Associated"} THEN m
    ELSE IF p.content.status = "Successful"
    THEN [m EXCEPT !.assoc_state = Associated(p.source.pan)]
    ELSE [m EXCEPT !.assoc_state = Unassociated]

rx_assoc_response(m, p) ==
    IF m.assoc_state.kind \in {"Unassociated", "Associated"} THEN m
    ELSE IF m.assoc_state.parent # p.source THEN m
    ELSE IF p.content.status = "Successful"
    THEN [m EXCEPT !.assoc_state = Associated(p.source.pan)]
    ELSE [m EXCEPT !.assoc_state = Unassociated]

\* handle_received, FrameContent::Acknowledgement (lines 790-806)
\* the Acknowledgement arm removing the first queued frame the ACK answers
rx_ack_any_entry(m, p) ==
    IF \E k \in 1..Len(m.tx_buff) : is_ack_for(p, m.tx_buff[k].packet)
    THEN [m EXCEPT !.tx_buff =
            LET k == CHOOSE j \in 1..Len(m.tx_buff) :
                        /\ is_ack_for(p, m.tx_buff[j].packet)
                        /\ \A i \in 1..(j - 1) : ~is_ack_for(p, m.tx_buff[i].packet)
            IN  SubSeq(@, 1, k - 1) \o SubSeq(@, k + 1, Len(@))]
    ELSE m

rx_ack(m, p) ==
    IF m.tx_buff # <<>> /\ is_ack_for(p, Head(m.tx_buff).packet)
    THEN [m EXCEPT !.tx_buff = dequeue(@)]
    ELSE m

\* handle_received, FrameContent::Data (lines 807-819)
rx_data(m, p, rssi) ==
    [m EXCEPT !.rx_buff = enqueue(@, [info |-> [source |-> p.source, rssi |-> rssi],
                                      packet |-> p])]

handle_received(c, t, rx) ==
    IF ~rx.decodable THEN [c EXCEPT !.err = "DecodeError"]
    ELSE IF ~pan_filter_pass(c.m, rx.packet) THEN c
    ELSE IF ~addr_filter_pass(c.m, rx.packet) THEN c
    ELSE LET p == rx.packet
             m1 == arm_ack(c.m, t, p)
             m2 == CASE p.content.kind = "Beacon" -> rx_beacon(m1, t, p)
                     [] p.content.kind = "Command" /\ p.content.cmd = "AssociationRequest" ->
                            rx_assoc_request(m1, p)
                     [] p.content.kind = "Command" /\ p.content.cmd = "AssociationResponse" ->
                            rx_assoc_response(m1, p)
                     [] p.content.kind = "Command" -> m1
                     [] p.content.kind = "Acknowledgement" -> rx_ack(m1, p)
                     [] OTHER -> rx_data(m1, p, rx.rssi)
         IN  [c EXCEPT !.m = m2, !.accepted = TRUE,
                       !.created = IF p.content.kind = "Command"
                                      /\ p.content.cmd = "AssociationRequest"
                                   THEN Append(@, assoc_response(m1, p)) ELSE @]

\* tick_beacon (lines 419-494); like the steps below it returns a context that
\* already holds an error unchanged (the ? of tick)
tick_beacon(c, t, asn) ==
    LET m == c.m
        sd == superframe_duration(m.config)
        missed == (m.next_beacon + m.config.mac_deadline) < t /\ m.sync_state.synced
        m1 == IF missed THEN [m EXCEPT !.beacon_miss_count = @ + 1] ELSE m
    IN  IF c.err # "Ok" THEN c
        ELSE IF m.last_asn = asn THEN c
        ELSE IF m.next_beacon = 0 \/ m.next_beacon > t THEN c
        ELSE IF missed /\ m1.beacon_miss_count > m.config.max_beacon_misses
        THEN [c EXCEPT !.m = [m1 EXCEPT !.sync_state = Unsynced, !.next_beacon = 0]]
        ELSE IF m.config.pan_coordinator
        THEN LET beacon == Packet_beacon(addr(m1), m1.seq, superframe_spec(m1.config))
                 c1 == Base_transmit([c EXCEPT !.m = seq_next(m1),
                                               !.created = Append(@, beacon)], beacon)
             IN  IF c1.err # "Ok" THEN c1
                 ELSE [c1 EXCEPT !.m.next_beacon = @ + sd]
        ELSE LET c1 == IF m1.base # "Listening"
                       THEN Base_receive([c EXCEPT !.m = m1])
                       ELSE [c EXCEPT !.m = m1]
             IN  IF c1.err # "Ok" THEN c1
                 ELSE [c1 EXCEPT !.m.next_beacon = @ + sd]

\* tick, "Transmit ACKs if scheduled" (lines 308-326)
tick_ack(c, t) ==
    LET m == c.m
        a == m.ack_state
    IN  IF c.err # "Ok" THEN c
        ELSE IF a.pending /\ a.tx_time < t
        THEN LET m1 == IF t > a.tx_time + m.config.mac_deadline
                       THEN [m EXCEPT !.stats.deadline_miss_ack = @ + 1]
                       ELSE m
                 c1 == Base_transmit([c EXCEPT !.m = m1], a.packet)
             IN  IF c1.err # "Ok" THEN c1
                 ELSE [c1 EXCEPT !.m.ack_state = AckNone]
        ELSE c

\* the backoff drawn from GlobalRng::next_u32() = r
backoff_slots(r, be) == (r % (Pow2(be) - 1)) + 1

Min(a, b) == IF a < b THEN a ELSE b

\* tick_cap, first TX attempt for the queue head (lines 529-559)
\* cap_start comparing the retry counter with max_retries + 1
cap_start_one_more(c, asn, r) ==
    LET m == c.m
        tx == Head(m.tx_buff)
        be == IF m.config.battery_life_extension THEN Min(2, m.config.min_be)
              ELSE m.config.min_be
    IN  IF tx.state.retries > m.config.max_retries + 1
        THEN [c EXCEPT !.m.stats.tx_fail = @ + 1, !.m.tx_buff = dequeue(@)]
        ELSE [c EXCEPT !.m.tx_buff[1].state.retries = @ + 1,
                       !.m.csma_state = CsmaPending(tx.packet, asn + backoff_slots(r, be), 0)]

cap_start(c, asn, r) ==
    LET m == c.m
        tx == Head(m.tx_buff)
        i == CHOOSE k \in 1..Len(m.tx_buff) :
                /\ m.tx_buff[k].packet.seq = tx.packet.seq
                /\ \A j \in 1..(k - 1) : m.tx_buff[j].packet.seq # tx.packet.seq
        be == IF m.config.battery_life_extension THEN Min(2, m.config.min_be)
              ELSE m.config.min_be
    IN  IF tx.state.retries > m.config.max_retries
        THEN [c EXCEPT !.m.stats.tx_fail = @ + 1, !.m.tx_buff = dequeue(@)]
        ELSE [c EXCEPT !.m.tx_buff[i].state.retries = @ + 1,
                       !.m.csma_state = CsmaPending(tx.packet, asn + backoff_slots(r, be), 0)]

\* tick_cap, CSMA restart in the first slot (lines 501-526)
cap_restart(c, asn, r) ==
    LET m == c.m
        cs == m.csma_state
        be == Min(m.config.min_be + cs.retries, m.config.max_be)
    IN  IF cs.retries >= m.config.csma_max_backoffs
        THEN [c EXCEPT !.m.stats.csma_cca_fail = @ + 1,
                       !.m.csma_state = CsmaNone,
                       !.m.tx_buff = dequeue(@)]
        ELSE IF cs.tx_slot = 0
        THEN [c EXCEPT !.m.csma_state =
                  CsmaPending(cs.packet, asn + backoff_slots(r, be), cs.retries + 1)]
        ELSE c

\* tick_cap, the other slots with a pending CSMA attempt (lines 562-607)
cap_run(c, asn, rssi) ==
    LET m == c.m
        cs == m.csma_state
    IN  IF asn < cs.tx_slot
        THEN LET c1 == Base_rssi(c)
             IN  IF c1.err # "Ok" THEN c1
                 ELSE IF rssi > m.config.channel_clear_threshold
                 THEN [c1 EXCEPT !.m.csma_state = CsmaPending(cs.packet, 0, cs.retries + 1)]
                 ELSE c1
        ELSE IF asn = cs.tx_slot
        THEN LET c1 == Base_transmit(c, cs.packet)
             IN  IF c1.err # "Ok" THEN c1
                 ELSE IF ~cs.packet.ack_request
                 THEN [c1 EXCEPT !.m.csma_state = CsmaNone, !.m.tx_buff = dequeue(@)]
                 ELSE [c1 EXCEPT !.m.csma_state = CsmaNone]
        ELSE IF cs.tx_slot # 0 /\ asn > cs.tx_slot
        THEN [c EXCEPT !.m.stats.deadline_miss_tx = @ + 1,
                       !.m.csma_state = CsmaPending(cs.packet, 0, cs.retries + 1)]
        ELSE c

\* tick_cap (lines 496-610)
\* tick_cap running a pending attempt in every slot, the first one included
tick_cap_every_slot(c, t, asn, io) ==
    IF c.err # "Ok" THEN c
    ELSE IF c.m.csma_state.pending /\ c.m.csma_state.tx_slot # 0
    THEN cap_run(c, asn, io.rssi)
    ELSE IF asn # c.m.last_asn /\ calculate_rsn(c.m.config, t, c.m.sync_offset) = 0
    THEN IF c.m.csma_state.pending THEN cap_restart(c, asn, io.rand)
         ELSE IF c.m.tx_buff # <<>> THEN cap_start(c, asn, io.rand)
         ELSE c
    ELSE c

tick_cap(c, t, asn, io) ==
    LET m == c.m
        rsn == calculate_rsn(m.config, t, m.sync_offset)
    IN  IF c.err # "Ok" THEN c
        ELSE IF asn # m.last_asn /\ rsn = 0
        THEN IF m.csma_state.pending THEN cap_restart(c, asn, io.rand)
             ELSE IF m.tx_buff # <<>> THEN cap_start(c, asn, io.rand)
             ELSE c
        ELSE IF m.csma_state.pending THEN cap_run(c, asn, io.rssi)
        ELSE c

\* tick, "Handle state changes" (lines 336-379)
tick_assoc(c, t, last_sync_state) ==
    LET m == c.m
    IN  IF c.err # "Ok" THEN c
        ELSE IF m.sync_state.synced /\ m.assoc_state.kind = "Unassociated"
        THEN LET assoc == Packet_command(m.sync_state.parent, addr(m), m.seq,
                                         "AssociationRequest", 0, "None")
                 m1 == seq_next(m)
             IN  [c EXCEPT !.m = [m1 EXCEPT
                     !.tx_buff = enqueue(@, [state |-> TxState_default, packet |-> assoc]),
                     !.assoc_state = AssocPending(m.sync_state.parent, t + m.config.assoc_timeout)],
                           !.created = Append(@, assoc)]
        ELSE IF m.sync_state.synced /\ m.assoc_state.kind = "Pending"
        THEN IF t > m.assoc_state.expiry
             THEN [c EXCEPT !.m.assoc_state = Unassociated]
             ELSE c
        ELSE IF ~m.sync_state.synced /\ m.assoc_state.kind = "Associated"
                /\ last_sync_state # Unsynced
        THEN [c EXCEPT !.m.stats.sync_fail = @ + 1, !.m.assoc_state = Unassociated]
        ELSE c

\* tick (lines 286-289): base.tick and, for a received frame, handle_received
tick_rx(b, t) == IF b.rx.some THEN handle_received(b.c, t, b.rx) ELSE b.c

\* tick (lines 304-379): the steps after the receive path; m is the Mac at the
\* start of the call, from which the slot numbers and last_sync_state are taken
tick_slot(c, m, t, io) ==
    tick_assoc(
        tick_cap(
            tick_ack(
                IF calculate_rsn(m.config, t, m.sync_offset) = 0
                THEN tick_beacon(c, t, calculate_asn(m.config, t, m.sync_offset))
                ELSE c,
                t),
            t, calculate_asn(m.config, t, m.sync_offset), io),
        t, m.sync_state)

(***************************************************************************)
(* 6LoWPAN headers (sixlo/headers.rs).  An Option is the empty set or a    *)
(* singleton.                                                              *)
(***************************************************************************)
Header_default == [hc1 |-> {}, mesh |-> {}, bcast |-> {}, frag |-> {}]

FragHeader(size, tag, offset) ==
    [datagram_size |-> size, datagram_tag |-> tag, datagram_offset |-> offset]

\* bitwise and / or of two naturals
RECURSIVE BitAnd(_, _)
BitAnd(a, b) ==
    IF a = 0 \/ b = 0 THEN 0
    ELSE (a % 2) * (b % 2) + 2 * BitAnd(a \div 2, b \div 2)

RECURSIVE BitOr(_, _)
BitOr(a, b) ==
    IF a = 0 THEN b
    ELSE IF b = 0 THEN a
    ELSE (IF a % 2 = 1 \/ b % 2 = 1 THEN 1 ELSE 0) + 2 * BitOr(a \div 2, b \div 2)

HEADER_TYPE_MASK == 3
HeaderType_Nalp == 0
HeaderType_Mesh == 2
HeaderType_Frag == 3
FragHeaderKind_FragN == 4

U8(x) == x % 256
U16(x) == x % 65536

\* FragHeader::encode into a zeroed buffer: the bytes written
FragHeader_encode(h) ==
    << BitOr(BitOr(HeaderType_Frag, U8(BitAnd(h.datagram_size, 7) * 32)),
             IF h.datagram_offset = {} THEN 0 ELSE FragHeaderKind_FragN),
       U8(h.datagram_size \div 8),
       h.datagram_tag % 256,
       h.datagram_tag \div 256 >>
    \o (IF h.datagram_offset = {} THEN <<>>
        ELSE << CHOOSE o \in h.datagram_offset : TRUE >>)

\* FragHeader::decode: the header and the number of bytes read
FragHeader_decode(buff) ==
    [ h |-> FragHeader(
              BitOr(BitAnd(buff[1], 224) \div 32, U16(buff[2] * 8)),
              BitOr(buff[3], buff[4] \div 256),
              IF BitAnd(buff[1], FragHeaderKind_FragN) # 0 THEN {buff[5]} ELSE {}),
      n |-> IF BitAnd(buff[1], FragHeaderKind_FragN) # 0 THEN 5 ELSE 4 ]

\* Header::merge: a field of h is taken where self has none
Header_merge(self, h) ==
    [ hc1 |-> IF self.hc1 = {} THEN h.hc1 ELSE self.hc1,
      mesh |-> IF self.mesh = {} THEN h.mesh ELSE self.mesh,
      bcast |-> IF self.bcast = {} THEN h.bcast ELSE self.bcast,
      frag |-> IF self.frag = {} THEN h.frag ELSE self.frag ]

(***************************************************************************)
(* Fragmentation buffers and manager (sixlo/frag.rs).  buff holds the      *)
(* array [u8; IPV6_MTU] up to the last byte written; the rest is zero.     *)
(***************************************************************************)
IPV6_MTU == 1280
MAX_FRAG_SIZE == 64
FRAG_SLOTS == 4

FragConfig_default == [frag_rx_timeout_ms |-> 10000, frag_tx_timeout_ms |-> 10000]

Max(a, b) == IF a > b THEN a ELSE b

\* B::from_bytes
from_bytes(data) == data

\* buff[offset..offset+len].copy_from_slice(data)
copy_from_slice(buff, offset, data) ==
    [i \in 1..Max(Len(buff), offset + Len(data)) |->
        IF i > offset /\ i <= offset + Len(data) THEN data[i - offset]
        ELSE IF i <= Len(buff) THEN buff[i] ELSE 0]

\* &buff[offset..offset+len]
frag_data(buff, offset, len) ==
    [i \in 1..len |-> IF offset + i <= Len(buff) THEN buff[offset + i] ELSE 0]

FragBuffer_default ==
    [ state |-> "None", header |-> Header_default, addr |-> AddrNone, tag |-> 0,
      len |-> 0, mask |-> 0, timeout |-> 0, offset |-> 0, buff |-> <<>> ]

\* FragBuffer::data
FragBuffer_data(s) == frag_data(s.buff, 0, s.len)

num_frags(len) ==
    IF len % MAX_FRAG_SIZE # 0 THEN (len \div MAX_FRAG_SIZE) + 1
    ELSE len \div MAX_FRAG_SIZE

\* mask | (1 << index)
SetBit(mask, index) ==
    IF (mask \div Pow2(index)) % 2 = 1 THEN mask ELSE mask + Pow2(index)

\* the byte offset a fragment header names: datagram_offset.unwrap_or(0) * 8
frag_offset(fh) == IF fh.datagram_offset = {} THEN 0
                   ELSE 8 * (CHOOSE o \in fh.datagram_offset : TRUE)

\* update_rx with the datagram_offset taken as a count of bytes
update_rx_unscaled(s, header, data) ==
    [s EXCEPT
        !.header = [Header_merge(s.header, header) EXCEPT !.frag = {}],
        !.buff = copy_from_slice(s.buff, frag_offset(CHOOSE fh \in header.frag : TRUE) \div 8, data),
        !.offset = frag_offset(CHOOSE fh \in header.frag : TRUE),
        !.mask = SetBit(s.mask, frag_offset(CHOOSE fh \in header.frag : TRUE) \div MAX_FRAG_SIZE),
        !.state = IF SetBit(s.mask, frag_offset(CHOOSE fh \in header.frag : TRUE) \div MAX_FRAG_SIZE)
                        = Pow2(num_frags(s.len)) - 1
                  THEN "Done" ELSE s.state]

\* FragBuffer::update_rx; it returns true iff it leaves the state Done
update_rx(s, header, data) ==
    [s EXCEPT
        !.header = [Header_merge(s.header, header) EXCEPT !.frag = {}],
        !.buff = copy_from_slice(s.buff, frag_offset(CHOOSE fh \in header.frag : TRUE), data),
        !.offset = frag_offset(CHOOSE fh \in header.frag : TRUE),
        !.mask = SetBit(s.mask, frag_offset(CHOOSE fh \in header.frag : TRUE) \div MAX_FRAG_SIZE),
        !.state = IF SetBit(s.mask, frag_offset(CHOOSE fh \in header.frag : TRUE) \div MAX_FRAG_SIZE)
                        = Pow2(num_frags(s.len)) - 1
                  THEN "Done" ELSE s.state]

init_rx(source, header, data) ==
    update_rx([FragBuffer_default EXCEPT
                  !.state = "Rx", !.header = header, !.addr = source,
                  !.tag = (CHOOSE fh \in header.frag : TRUE).datagram_tag,
                  !.len = (CHOOSE fh \in header.frag : TRUE).datagram_size],
              header, data)

init_tx(dest, header, tag, data) ==
    [FragBuffer_default EXCEPT
        !.state = "Tx", !.header = [header EXCEPT !.frag = {}], !.addr = dest,
        !.len = Len(data), !.tag = tag, !.buff = from_bytes(data)]

init_done(source, header, data) ==
    [FragBuffer_default EXCEPT
        !.state = "Done", !.header = header, !.addr = source, !.tag = 0,
        !.len = Len(data), !.buff = from_bytes(data)]

\* FragBuffer::frag: the header, offset and length of fragment index
frag(s, index) ==
    [ header |-> IF index = 0
                 THEN [s.header EXCEPT !.frag = {FragHeader(s.len % 65536, s.tag, {})}]
                 ELSE [Header_default EXCEPT !.frag =
                          {FragHeader(s.len % 65536, s.tag,
                                      {((index * MAX_FRAG_SIZE) \div 8) % 256})}],
      offset |-> index * MAX_FRAG_SIZE,
      len |-> Min(MAX_FRAG_SIZE, s.len - index * MAX_FRAG_SIZE) ]

\* <FragBuffer as Iterator>::next for a buffer in state Tx: the buffer afterwards
FragBuffer_next(s) ==
    [s EXCEPT !.offset = s.offset + MAX_FRAG_SIZE,
              !.state = IF s.offset + MAX_FRAG_SIZE > s.len THEN "None" ELSE s.state]

Frag_new(config) ==
    [config |-> config, tag |-> 0, buffs |-> [i \in 1..FRAG_SLOTS |-> FragBuffer_default]]

\* the first slot in state None, 0 when there is none
free_slot(f) ==
    IF \E i \in 1..FRAG_SLOTS : f.buffs[i].state = "None"
    THEN CHOOSE i \in 1..FRAG_SLOTS :
            /\ f.buffs[i].state = "None"
            /\ \A j \in 1..(i - 1) : f.buffs[j].state # "None"
    ELSE 0

\* transmit taking the first slot when none is free
Frag_transmit_overwrite(f, t, dest, hdr, d) ==
    [f |-> [f EXCEPT
               !.buffs[Max(free_slot(f), 1)] =
                   [init_tx(dest, hdr, f.tag, d) EXCEPT
                       !.timeout = t + f.config.frag_tx_timeout_ms],
               !.tag = (f.tag + 1) % 65536],
     err |-> "Ok"]

Frag_transmit(f, t, dest, hdr, d) ==
    IF free_slot(f) = 0 THEN [f |-> f, err |-> "NoTxFragSlots"]
    ELSE [f |-> [f EXCEPT
                    !.buffs[free_slot(f)] =
                        [init_tx(dest, hdr, f.tag, d) EXCEPT
                            !.timeout = t + f.config.frag_tx_timeout_ms],
                    !.tag = (f.tag + 1) % 65536],
          err |-> "Ok"]

Frag_push(f, fb) ==
    IF free_slot(f) = 0 THEN [f |-> f, err |-> "NoTxFragSlots"]
    ELSE [f |-> [f EXCEPT !.buffs[free_slot(f)] = fb], err |-> "Ok"]

\* the first slot in state Done, 0 when there is none
done_slot(f) ==
    IF \E i \in 1..FRAG_SLOTS : f.buffs[i].state = "Done"
    THEN CHOOSE i \in 1..FRAG_SLOTS :
            /\ f.buffs[i].state = "Done"
            /\ \A j \in 1..(i - 1) : f.buffs[j].state # "Done"
    ELSE 0

Frag_pop(f) ==
    IF done_slot(f) = 0
    THEN [f |-> f, some |-> FALSE, addr |-> AddrNone, header |-> Header_default, data |-> <<>>]
    ELSE [f |-> [f EXCEPT !.buffs[done_slot(f)].state = "None"], some |-> TRUE,
          addr |-> f.buffs[done_slot(f)].addr,
          header |-> f.buffs[done_slot(f)].header,
          data |-> FragBuffer_data(f.buffs[done_slot(f)])]

\* the first slot in state Rx with the source and tag of the fragment, 0 when
\* there is none
rx_slot(f, src, tag) ==
    IF \E i \in 1..FRAG_SLOTS :
          f.buffs[i].state = "Rx" /\ f.buffs[i].addr = src /\ f.buffs[i].tag = tag
    THEN CHOOSE i \in 1..FRAG_SLOTS :
            /\ f.buffs[i].state = "Rx" /\ f.buffs[i].addr = src /\ f.buffs[i].tag = tag
            /\ \A j \in 1..(i - 1) :
                  ~(f.buffs[j].state = "Rx" /\ f.buffs[j].addr = src /\ f.buffs[j].tag = tag)
    ELSE 0

\* receive for a header that has a fragment header fh
receive_frag(f, t, src, hdr, d, fh) ==
    IF rx_slot(f, src, fh.datagram_tag) = 0
    THEN Frag_push(f, [init_rx(src, hdr, d) EXCEPT !.timeout = t + f.config.frag_rx_timeout_ms])
    ELSE [f |-> [f EXCEPT !.buffs[rx_slot(f, src, fh.datagram_tag)] = update_rx(@, hdr, d)],
          err |-> "Ok"]

Frag_receive(f, t, src, hdr, d) ==
    IF hdr.frag = {} THEN Frag_push(f, init_done(src, hdr, d))
    ELSE receive_frag(f, t, src, hdr, d, CHOOSE fh \in hdr.frag : TRUE)

PollOptions_default == [can_tx |-> TRUE, tx_addr |-> AddrNone]

\* the first loop without the test timeout != 0
poll_timeouts_zero_too(f, t) ==
    [f EXCEPT !.buffs = [i \in 1..FRAG_SLOTS |->
        IF f.buffs[i].state # "None" /\ t > f.buffs[i].timeout
        THEN [f.buffs[i] EXCEPT !.state = "None"]
        ELSE f.buffs[i]]]

\* poll, first loop: a slot in use whose timeout has passed is freed
poll_timeouts(f, t) ==
    [f EXCEPT !.buffs = [i \in 1..FRAG_SLOTS |->
        IF f.buffs[i].state # "None" /\ f.buffs[i].timeout # 0 /\ t > f.buffs[i].timeout
        THEN [f.buffs[i] EXCEPT !.state = "None"]
        ELSE f.buffs[i]]]

poll_pass(s, opts) ==
    /\ s.state = "Tx"
    /\ opts.can_tx
    /\ (opts.tx_addr = AddrNone \/ opts.tx_addr = s.addr)

\* the first Tx slot that passes the filters of opts, 0 when there is none
tx_slot(f, opts) ==
    IF \E i \in 1..FRAG_SLOTS : poll_pass(f.buffs[i], opts)
    THEN CHOOSE i \in 1..FRAG_SLOTS :
            /\ poll_pass(f.buffs[i], opts)
            /\ \A j \in 1..(i - 1) : ~poll_pass(f.buffs[j], opts)
    ELSE 0

\* poll, second loop, on the manager the first loop left
poll_tx(f, i) ==
    IF i = 0
    THEN [f |-> f, some |-> FALSE, addr |-> AddrNone, header |-> Header_default, data |-> <<>>]
    ELSE [f |-> [f EXCEPT !.buffs[i] = FragBuffer_next(@)], some |-> TRUE,
          addr |-> f.buffs[i].addr,
          header |-> frag(f.buffs[i], f.buffs[i].offset \div MAX_FRAG_SIZE).header,
          data |-> frag_data(f.buffs[i].buff,
                             frag(f.buffs[i], f.buffs[i].offset \div MAX_FRAG_SIZE).offset,
                             frag(f.buffs[i], f.buffs[i].offset \div MAX_FRAG_SIZE).len)]

Frag_poll(f, t, opts) == poll_tx(poll_timeouts(f, t), tx_slot(poll_timeouts(f, t), opts))

(***************************************************************************)
(* The 6LoWPAN layer (sixlo/mod.rs, Header::decode and Header::encode of   *)
(* sixlo/headers.rs).  SixLo::transmit always sends Header::default(); a   *)
(* decoded mesh header keeps its addresses as the bytes received.  A       *)
(* result with err = "Panic" is a call that does not return (an index out  *)
(* of range, or unwrap() on the Err of a decode).                          *)
(***************************************************************************)
MAX_PAYLOAD == 127
HEADER_MESH_SHORT_F == 4

\* Header::encode for a header without mesh, broadcast and HC1 parts
Header_encode(h) ==
    IF h.frag = {} THEN <<>> ELSE FragHeader_encode(CHOOSE fh \in h.frag : TRUE)

\* the bytes MeshHeader::decode reads: the dispatch byte, the origin address
\* (short: in a mesh dispatch byte HEADER_MESH_SHORT_V is a type bit and is
\* set) and the final address, short or extended
MeshHeader_len(d) == 1 + 2 + (IF BitAnd(d, HEADER_MESH_SHORT_F) # 0 THEN 2 ELSE 8)

MeshHeader_decode(buff) ==
    [ hops_left |-> BitAnd(buff[1] \div 16, 15),
      origin_addr |-> SubSeq(buff, 2, 3),
      final_addr |-> SubSeq(buff, 4, MeshHeader_len(buff[1])) ]

FragHeader_len(d) == IF BitAnd(d, FragHeaderKind_FragN) # 0 THEN 5 ELSE 4

DecodePanic == [h |-> Header_default, n |-> 0, err |-> "Panic"]

\* Header::decode, "Parse out mesh headers" (lines 64-71)
decode_mesh(buff) ==
    IF BitAnd(buff[1], HEADER_TYPE_MASK) # HeaderType_Mesh
    THEN [h |-> Header_default, n |-> 0, err |-> "Ok"]
    ELSE IF Len(buff) < MeshHeader_len(buff[1]) THEN DecodePanic
    ELSE [h |-> [Header_default EXCEPT !.mesh = {MeshHeader_decode(buff)}],
          n |-> MeshHeader_len(buff[1]), err |-> "Ok"]

\* Header::decode, "Parse fragmentation header" (lines 76-83), r being the
\* result so far
decode_frag(buff, r) ==
    IF r.err # "Ok" \/ r.n >= Len(buff) THEN DecodePanic
    ELSE IF BitAnd(buff[r.n + 1], HEADER_TYPE_MASK) # HeaderType_Frag THEN r
    ELSE IF Len(buff) - r.n < FragHeader_len(buff[r.n + 1]) THEN DecodePanic
    ELSE [h |-> [r.h EXCEPT !.frag = {FragHeader_decode(SubSeq(buff, r.n + 1, Len(buff))).h}],
          n |-> r.n + FragHeader_len(buff[r.n + 1]), err |-> "Ok"]

Header_decode(buff) ==
    IF buff = <<>> THEN DecodePanic
    ELSE IF BitAnd(buff[1], HEADER_TYPE_MASK) = HeaderType_Nalp
    THEN [h |-> Header_default, n |-> 0, err |-> "Ok"]
    ELSE decode_frag(buff, decode_mesh(buff))

\* the ack flag SixLo asks of the MAC: the destination is not a broadcast
\* address
is_unicast(a) == a.kind = "Extended" \/ (a.kind = "Short" /\ a.addr # BROADCAST_SHORT)

\* SixLo::transmit on the stack with Mac m and fragmentation manager f
SixLo_transmit(m, f, t, dest, data) ==
    IF Len(Header_encode(Header_default)) + Len(data) < MAX_PAYLOAD
    THEN [ m |-> Mac_transmit(m, dest, Header_encode(Header_default) \o data,
                              is_unicast(dest)).m,
           f |-> f, err |-> "Ok", direct |-> TRUE ]
    ELSE [ m |-> m, f |-> Frag_transmit(f, t, dest, Header_default, data).f,
           err |-> Frag_transmit(f, t, dest, Header_default, data).err, direct |-> FALSE ]

\* SixLo::handle_rx on the payload the Mac returned from receive
SixLo_handle_rx(f, t, source, data) ==
    IF Header_decode(data).err # "Ok" THEN [f |-> f, err |-> "Panic"]
    ELSE Frag_receive(f, t, source, Header_decode(data).h,
                      SubSeq(data, Header_decode(data).n + 1, Len(data)))

\* both managers as Frag::new leaves them, nothing observed yet
FragNew ==
    /\ frag_a = Frag_new(FragConfig_default)
    /\ frag_b = Frag_new(FragConfig_default)
    /\ fev = [op |-> "new", some |-> FALSE, err |-> "Ok"]
    /\ flog = [sent |-> <<>>, emitted |-> <<>>, received |-> {}, popped |-> <<>>]

(***************************************************************************)
(* The calls of the host: Mac::transmit, Mac::receive and Mac::tick.       *)
(* ev records the call, what it returned and, for tick, what the radio     *)
(* delivered, whether the frame passed the filters, the Mac as             *)
(* handle_received left it and the frames handed to the radio.             *)
(***************************************************************************)
OWN_ADDRESS == 43981
COORD_ADDRESS == 4386

Own == Extended(DefaultConfig.pan_id, OWN_ADDRESS)
Coord == Extended(DefaultConfig.pan_id, COORD_ADDRESS)
Peer == Extended(DefaultConfig.pan_id, 13124)

NodeConfig == DefaultConfig
CoordinatorConfig == [DefaultConfig EXCEPT !.pan_coordinator = TRUE]

EvInit(m) ==
    [op |-> "new", result |-> "Ok", rx |-> NoRx, accepted |-> FALSE,
     after_rx |-> m, handed |-> <<>>, packet |-> NoPacket, full |-> FALSE,
     created |-> <<>>, cca_busy |-> 0, cca_clear |-> 0]

\* tick_cap made a clear-channel assessment (Base::rssi polled the radio) and
\* read a value above channel_clear_threshold
cca_found_busy(c, io) ==
    /\ \E i \in 1..Len(c.radio) : c.radio[i] = "poll_rssi"
    /\ io.rssi > c.m.config.channel_clear_threshold

\* the busy assessments of the CSMA attempt that is pending after a tick:
\* counted from the tick that made csma_state Pending
busy_assessments(m, c, io) ==
    IF ~c.m.csma_state.pending \/ ~m.csma_state.pending THEN 0
    ELSE ev.cca_busy + (IF cca_found_busy(c, io) THEN 1 ELSE 0)

\* Base::new: state Idle, no call on the radio
BevNew == [op |-> "new", err |-> "Ok", radio |-> <<>>, some |-> FALSE, fail |-> FALSE,
           rx_done |-> FALSE, tx_done |-> FALSE]


\* the clear-channel assessments that read the channel clear since the backoff
\* of the pending CSMA attempt was armed: the count starts again when tick_cap
\* sets a target slot
clear_assessments(m, c, io) ==
    IF ~c.m.csma_state.pending THEN 0
    ELSE IF c.m.csma_state.tx_slot # 0
            /\ (~m.csma_state.pending \/ m.csma_state.tx_slot # c.m.csma_state.tx_slot)
    THEN 0
    ELSE ev.cca_clear + (IF \E i \in 1..Len(c.radio) : c.radio[i] = "poll_rssi"
                         THEN (IF io.rssi <= c.m.config.channel_clear_threshold THEN 1 ELSE 0)
                         ELSE 0)

(***************************************************************************)
(* The CSMA MAC of mac/core.rs and mac/csma.rs.  An Option<Packet> is the  *)
(* empty sequence or a sequence of one packet.  A function maps a context  *)
(* [m, err, handed, ret] to the context after the call: m is the Core, err *)
(* the Result ("Ok" or the CoreError; "Panic" is an unwrap() on None or an *)
(* arithmetic overflow, after which nothing runs), handed the frames given *)
(* to Radio::start_transmit and ret the Option<Packet> tick returns.  The  *)
(* radio answers every call with Ok; io.busy is what Radio::is_busy        *)
(* returns, io.rx what check_receive and get_received deliver.             *)
(***************************************************************************)
CoreConfig_default ==
    [channel_clear_threshold |-> -90, ack_timeout_ms |-> 10, max_retries |-> 5]

CsmaConfig_default ==
    [min_backoff_count |-> 1, max_backof_count |-> 5, backoff_period_ms |-> 10,
     max_backoff_retries |-> 2]

CsmaIdle == [pending |-> FALSE, r |-> 0, t |-> 0]
CsmaStatePending(r, t) == [pending |-> TRUE, r |-> r, t |-> t]

Core_new_csma(address, t) ==
    [ address |-> address, config |-> CoreConfig_default, state |-> "Idle", seq |-> 0,
      ack_required |-> FALSE, retries |-> 0, last_tick |-> t,
      rx_buffer |-> <<>>, tx_buffer |-> <<>>,
      mode |-> [config |-> CsmaConfig_default, state |-> CsmaIdle] ]

CoreCtx(m) == [m |-> m, err |-> "Ok", handed |-> <<>>, ret |-> <<>>]

\* CsmaConfig::backoff_ms with r the value GlobalRng returned
backoff_ms(cfg, r) ==
    Max(r % cfg.max_backof_count, cfg.min_backoff_count) * cfg.backoff_period_ms

Core_set_transmit(c, packet) ==
    IF c.m.tx_buffer # <<>> THEN [c EXCEPT !.err = "BufferFull"]
    ELSE [c EXCEPT !.m.tx_buffer = <<packet>>]

Core_receive_start(c, t) ==
    [c EXCEPT !.m.state = "Listening", !.m.last_tick = t]

\* check_address_match for a Core whose address is extended, without a short
\* address
Core_check_address_match(m, a) ==
    /\ a.kind = "None" \/ a.pan = BROADCAST_PAN \/ a.pan = m.address.pan
    /\ a.kind = "Extended" => a.addr = m.address.addr

\* try_receive: the packet it returns, as an Option
Core_try_receive(m, io) ==
    IF io.rx.some /\ Core_check_address_match(m, io.rx.packet.destination)
    THEN <<io.rx.packet>> ELSE <<>>

Core_transmit_now(c, t, packet) ==
    [c EXCEPT !.handed = Append(@, packet), !.m.state = "Transmitting",
              !.m.ack_required = packet.ack_request, !.m.last_tick = t]

\* the store of the packet at the end of handle_received
Core_store_received(c, packet) ==
    IF c.m.rx_buffer # <<>> THEN [c EXCEPT !.err = "BufferFull"]
    ELSE [c EXCEPT !.m.rx_buffer = <<packet>>]

Core_handle_received(c, t, packet) ==
    Core_store_received(IF packet.ack_request
                        THEN Core_transmit_now(c, t, Packet_ack(packet))
                        ELSE Core_receive_start(c, t),
                        packet)

\* handle_ack is true iff there is an outgoing packet and incoming is its ACK
Core_acked(m, incoming) ==
    m.tx_buffer # <<>> /\ is_ack_for(incoming, m.tx_buffer[1])

\* channel_clear is true iff the radio is not busy and the RSSI is at or below
\* the threshold
Core_channel_is_clear(m, io) ==
    ~io.busy /\ io.rssi <= m.config.channel_clear_threshold

\* channel_clear: what it leaves
Core_channel_clear(c, io) ==
    IF ~io.busy /\ io.rssi > c.m.config.channel_clear_threshold
    THEN [c EXCEPT !.m.state = "Listening"]
    ELSE c

Core_transmit_csma(c, t, io, packet) ==
    IF Core_channel_is_clear(c.m, io)
    THEN Core_transmit_now(Core_channel_clear(c, io), t, packet)
    ELSE Core_channel_clear(c, io)

\* self.retries -= 1 on a u16: at 0 the debug build panics and the release
\* build wraps
RetriesDecremented(c) ==
    IF c.m.retries > 0 THEN {[c EXCEPT !.m.retries = @ - 1]}
    ELSE {[c EXCEPT !.err = "Panic"], [c EXCEPT !.m.retries = 65535]}

\* tick in Listening or Receiving with CsmaState::Pending(r, t) (lines 141-173)
Csma_tick_pending(c, t, io) ==
    IF t >= c.m.mode.state.t
    THEN Core_transmit_now(c, t, c.m.tx_buffer[1])
    ELSE IF Core_channel_is_clear(c.m, io) THEN c
    ELSE IF c.m.mode.state.r = 0
    THEN [Core_channel_clear(c, io) EXCEPT !.m.mode.state = CsmaIdle, !.m.tx_buffer = <<>>,
                                           !.err = "TransmitFailed"]
    ELSE [Core_channel_clear(c, io) EXCEPT !.m.mode.state =
             CsmaStatePending(c.m.mode.state.r - 1, t + backoff_ms(c.m.mode.config, io.rand))]

\* tick in Listening or Receiving (lines 133-189)
Csma_tick_listening(c, t, io) ==
    IF Core_try_receive(c.m, io) # <<>>
    THEN Core_handle_received(c, t, Core_try_receive(c.m, io)[1])
    ELSE IF c.m.mode.state.pending
    THEN (IF c.m.tx_buffer = <<>> THEN [c EXCEPT !.err = "Panic"]
          ELSE Csma_tick_pending(c, t, io))
    ELSE IF c.m.tx_buffer # <<>>
    THEN [c EXCEPT !.m.retries = c.m.config.max_retries,
                   !.m.mode.state = CsmaStatePending(c.m.mode.config.max_backoff_retries,
                                                     t + backoff_ms(c.m.mode.config, io.rand))]
    ELSE c

\* transmit_done returning true: what it leaves
Core_transmit_done(c, t) ==
    [c EXCEPT !.m.state = IF c.m.ack_required THEN "AwaitingAck" ELSE "Listening",
              !.m.last_tick = t]

\* tick in Transmitting (lines 190-207): the contexts it can return
Csma_tick_transmitting(c, t, io) ==
    IF ~io.tx_done THEN {c}
    ELSE IF c.m.tx_buffer = <<>>
    THEN {[Core_transmit_done(c, t) EXCEPT !.m.mode.state = CsmaIdle, !.err = "Panic"]}
    ELSE IF ~c.m.tx_buffer[1].ack_request
    THEN {[Core_transmit_done(c, t) EXCEPT !.m.mode.state = CsmaIdle,
                                           !.m.tx_buffer = <<>>, !.ret = c.m.tx_buffer]}
    ELSE RetriesDecremented([Core_transmit_done(c, t) EXCEPT !.m.mode.state = CsmaIdle])

\* tick in AwaitingAck after a packet that is not the ACK, the timeout having
\* passed (lines 222-243)
Csma_ack_timeout(c, t, io) ==
    IF c.m.tx_buffer = <<>> THEN {[c EXCEPT !.err = "Panic"]}
    ELSE IF c.m.retries > 0
    THEN RetriesDecremented(Core_transmit_csma(c, t, io, c.m.tx_buffer[1]))
    ELSE {[Core_receive_start(c, t) EXCEPT !.m.tx_buffer = <<>>, !.err = "TransmitFailed"]}

\* tick in AwaitingAck (lines 208-244)
Csma_tick_awaiting_ack(c, t, io) ==
    IF Core_try_receive(c.m, io) = <<>> THEN {c}
    ELSE IF Core_acked(c.m, Core_try_receive(c.m, io)[1]) THEN {Core_receive_start(c, t)}
    ELSE IF t > c.m.last_tick + c.m.config.ack_timeout_ms THEN Csma_ack_timeout(c, t, io)
    ELSE {c}

\* <Core<_, _, _, CsmaMode> as Mac>::tick at time t: the contexts it can return
Csma_tick(c, t, io) ==
    CASE c.m.state = "Idle" -> {Core_receive_start(c, t)}
      [] c.m.state \in {"Listening", "Receiving"} -> {Csma_tick_listening(c, t, io)}
      [] c.m.state = "Transmitting" -> Csma_tick_transmitting(c, t, io)
      [] c.m.state = "AwaitingAck" -> Csma_tick_awaiting_ack(c, t, io)
      [] OTHER -> {c}

CevNew == [op |-> "new", err |-> "Ok", handed |-> <<>>, ret |-> <<>>, rx |-> NoRx,
           sent |-> 0]

MacInit(configs, starts) ==
    /\ now \in starts
    /\ \E cfg \in configs : mac = Mac_new(OWN_ADDRESS, cfg, now)
    /\ ev = EvInit(mac)
    /\ csma_log = <<>>
    /\ base = "Idle"
    /\ bev = BevNew
    /\ core = Core_new_csma(Own, now)
    /\ cev = CevNew

Transmit(dest, data, ack) ==
    LET r == Mac_transmit(mac, dest, data, ack)
    IN  /\ mac' = r.m
        /\ now' = now
        /\ ev' = [EvInit(r.m) EXCEPT !.op = "transmit", !.result = r.result,
                                     !.packet = r.packet, !.full = QueueFull(mac.tx_buff),
                                     !.created = <<r.packet>>,
                                     !.cca_busy = ev.cca_busy, !.cca_clear = ev.cca_clear]
        /\ UNCHANGED <<csma_log, fragvars, basevars, corevars>>

Receive ==
    LET r == Mac_receive(mac)
    IN  /\ mac' = r.m
        /\ now' = now
        /\ ev' = [EvInit(r.m) EXCEPT !.op = "receive", !.accepted = r.some,
                                     !.cca_busy = ev.cca_busy, !.cca_clear = ev.cca_clear]
        /\ UNCHANGED <<csma_log, fragvars, basevars, corevars>>

\* busy() changes nothing; ev.accepted records the value it returned
Busy ==
    /\ ev' = [EvInit(mac) EXCEPT !.op = "busy", !.accepted = Mac_busy(mac),
                                 !.full = QueueFull(mac.tx_buff),
                                 !.cca_busy = ev.cca_busy, !.cca_clear = ev.cca_clear]
    /\ UNCHANGED <<mac, now, csma_log, fragvars, basevars, corevars>>

Tick(io) ==
    \E b \in {Base_tick(Ctx(mac), io)} :
    \E c1 \in {tick_rx(b, now + io.dt)} :
    \E c5 \in {tick_slot(c1, mac, now + io.dt, io)} :
        /\ now' = now + io.dt
        /\ mac' = c5.m
        /\ ev' = [op |-> "tick", result |-> c5.err, rx |-> b.rx,
                  accepted |-> c1.accepted, after_rx |-> c1.m,
                  handed |-> c5.handed, packet |-> NoPacket, full |-> FALSE,
                  created |-> c5.created,
                  cca_busy |-> busy_assessments(mac, c5, io),
                  cca_clear |-> clear_assessments(mac, c5, io)]
        /\ csma_log' = IF ~mac.csma_state.pending /\ c5.m.csma_state.pending
                        THEN Append(csma_log, c5.m.csma_state.packet.seq)
                        ELSE csma_log
        /\ UNCHANGED <<fragvars, basevars, corevars>>

Rx(p) == [some |-> TRUE, decodable |-> TRUE, packet |-> p, rssi |-> -40]

\* a frame for which Packet::decode returns an error
Undecodable == [some |-> TRUE, decodable |-> FALSE, packet |-> NoPacket, rssi |-> -40]

\* channel readings below and above the clear-channel threshold
RSSI_CLEAR == DefaultConfig.channel_clear_threshold - 30
RSSI_BUSY == DefaultConfig.channel_clear_threshold + 30

IoSet(dts, rxs, dones, rands, rssis) ==
    [dt : dts, rx : rxs, tx_done : dones, rand : rands, rssi : rssis]

(***************************************************************************)
(* SpecQueue: the queues under load.  The host transmits to Peer, pops     *)
(* the RX queue and ticks; the radio delivers data frames, association     *)
(* requests and beacons.                                                   *)
(***************************************************************************)
MaxQueueTime == 600
MaxQueueSeq == 17

DataFromPeer == Packet_data(Own, Peer, 7, <<1>>, FALSE)
AssocReqFromPeer == Packet_command(Own, Peer, 9, "AssociationRequest", 0, "None")
BeaconFromCoord == Packet_beacon(Coord, 0, superframe_spec(CoordinatorConfig))

QueueIo ==
    IoSet({0}, {NoRx, Rx(DataFromPeer)}, {TRUE}, {0}, {RSSI_CLEAR})
    \cup IoSet({100}, {NoRx, Rx(AssocReqFromPeer), Rx(BeaconFromCoord)}, {TRUE}, {0}, {RSSI_CLEAR})

QueueInit == MacInit({NodeConfig, CoordinatorConfig}, {500}) /\ FragNew

QueueNext ==
    \/ mac.seq < MaxQueueSeq /\ Transmit(Peer, <<1>>, FALSE)
    \/ Receive
    \/ \E io \in QueueIo : now + io.dt <= MaxQueueTime /\ Tick(io)

SpecQueue == QueueInit /\ [][QueueNext]_vars

\* C1: after any sequence of transmit, receive and tick calls the TX queue
\* holds at most 16 entries and the RX queue holds at most 16 entries.
C1_QueuesBounded == Len(mac.tx_buff) <= 16 /\ Len(mac.rx_buff) <= 16

\* both queues are full and the last call was a transmit on the full TX queue
C1_Witness ==
    /\ Len(mac.tx_buff) = 16
    /\ Len(mac.rx_buff) = 16
    /\ ev.op = "transmit"
    /\ ev.full

\* C2: transmit returns Ok only when the Data frame was appended to the TX
\* queue, and returns a queue-full error when the TX queue is full.
C2_TransmitOkMeansQueued ==
    ev.op = "transmit" =>
        /\ ev.result = "Ok" =>
              /\ mac.tx_buff # <<>>
              /\ mac.tx_buff[Len(mac.tx_buff)].packet = ev.packet
        /\ ev.full => ev.result = "BufferFull"

(***************************************************************************)
(* SpecAck: acknowledgements in both directions.  The host queues Data     *)
(* frames with ack_request for Peer; the radio delivers Data frames with   *)
(* ack_request and Acknowledgement frames that do or do not answer the     *)
(* head of the TX queue.                                                   *)
(***************************************************************************)
MaxAckTime == 800
MaxAckSeq == 3

DataAckFromPeer == Packet_data(Own, Peer, 7, <<1>>, TRUE)

\* the ACK a station dest returns for our Data frame with sequence number seq
AckFrom(dest, seq) == Packet_ack(Packet_data(dest, Own, seq, <<1>>, TRUE))

AckIo ==
    IoSet({50, 100},
          {NoRx, Rx(DataAckFromPeer), Rx(AckFrom(Peer, 0)), Rx(AckFrom(Peer, 1)),
           Rx(AckFrom(Coord, 0))},
          {TRUE}, {0}, {RSSI_CLEAR})

AckInit == MacInit({NodeConfig, CoordinatorConfig}, {500}) /\ FragNew

AckNext ==
    \/ mac.seq < MaxAckSeq /\ Transmit(Peer, <<1>>, TRUE)
    \/ Receive
    \/ \E io \in AckIo : now + io.dt <= MaxAckTime /\ Tick(io)

SpecAck == AckInit /\ [][AckNext]_vars

\* C3: the ACK armed by an accepted frame with ack_request received at time t
\* is handed to the radio at the first tick with now >= t + ack_delay: after a
\* tick that returned Ok, an ACK is still pending only if its tx_time lies
\* ahead.
C3_AckSentWhenDue ==
    (ev.op = "tick" /\ ev.result = "Ok" /\ mac.ack_state.pending)
        => now < mac.ack_state.tx_time

\* C4: an accepted Acknowledgement removes the head of the TX queue iff its
\* source is the head's destination, its destination the head's source and
\* the sequence numbers are equal; a matching ACK leaves tx_fail alone and any
\* other ACK leaves the TX queue unchanged.
C4_AckRemovesMatchingHead ==
    [][ (ev'.op = "tick" /\ ev'.accepted /\ ev'.rx.packet.frame_type = "Acknowledgement")
        => LET p == ev'.rx.packet
               matches == /\ mac.tx_buff # <<>>
                          /\ p.source = Head(mac.tx_buff).packet.destination
                          /\ p.destination = Head(mac.tx_buff).packet.source
                          /\ p.seq = Head(mac.tx_buff).packet.seq
           IN  /\ matches => /\ ev'.after_rx.tx_buff = Tail(mac.tx_buff)
                             /\ ev'.after_rx.stats.tx_fail = mac.stats.tx_fail
               /\ ~matches => ev'.after_rx.tx_buff = mac.tx_buff ]_vars

\* the ACK for sequence number 0 was accepted while frames 0 and 1 were queued:
\* frame 1 is now the head
C4_Witness ==
    /\ ev.op = "tick" /\ ev.accepted
    /\ ev.rx.packet = AckFrom(Peer, 0)
    /\ mac.seq = 2
    /\ Len(ev.after_rx.tx_buff) = 1
    /\ ev.after_rx.tx_buff[1].packet.seq = 1
    /\ ev.after_rx.stats.tx_fail = 0

(***************************************************************************)
(* SpecCsma: frames with ack_request that are never acknowledged.  The     *)
(* host queues Data frames for Peer and ticks once per slot; the radio     *)
(* delivers nothing, reports a clear or a busy channel and the random      *)
(* generator returns RandValues.                                           *)
(***************************************************************************)
MaxCsmaTime == 7600
MaxCsmaSeq == 2

RandValues == {0, 1, 9}

CsmaIo == IoSet({100}, {NoRx}, {TRUE}, RandValues, {RSSI_CLEAR, RSSI_BUSY})

CsmaInit == MacInit({NodeConfig}, {500}) /\ FragNew

CsmaNext ==
    \/ mac.seq < MaxCsmaSeq /\ Transmit(Peer, <<1>>, TRUE)
    \/ \E io \in CsmaIo : now + io.dt <= MaxCsmaTime /\ Tick(io)

SpecCsma == CsmaInit /\ [][CsmaNext]_vars

\* how often the frame with sequence number s was given to CSMA
Handoffs(s) == Cardinality({i \in 1..Len(csma_log) : csma_log[i] = s})

\* C5: a frame with ack_request that is never acknowledged is given to CSMA at
\* most max_retries + 1 times, and at the check in the first slot of a
\* superframe (rsn = 0, no CSMA attempt pending) that finds its retry counter
\* above max_retries it is removed and tx_fail grows by exactly one.
C5_RetriesBounded ==
    /\ [](\A s \in 0..255 : Handoffs(s) <= mac.config.max_retries + 1)
    /\ [][ ( /\ ev'.op = "tick" /\ ev'.result = "Ok"
             /\ calculate_rsn(mac.config, now', mac.sync_offset) = 0
             /\ calculate_asn(mac.config, now', mac.sync_offset) # mac.last_asn
             /\ ~mac.csma_state.pending
             /\ mac.tx_buff # <<>>
             /\ Head(mac.tx_buff).state.retries > mac.config.max_retries )
           => /\ mac'.tx_buff = Tail(mac.tx_buff)
              /\ mac'.stats.tx_fail = mac.stats.tx_fail + 1
              /\ csma_log' = csma_log ]_vars

\* frame 0 went to CSMA max_retries + 1 times and was then dropped
C5_Witness ==
    /\ ev.op = "tick"
    /\ Handoffs(0) = mac.config.max_retries + 1
    /\ mac.stats.tx_fail = 1
    /\ mac.stats.csma_cca_fail = 0
    /\ \A i \in 1..Len(mac.tx_buff) : mac.tx_buff[i].packet.seq # 0

(***************************************************************************)
(* SpecBeacon: beacons.  A coordinator or a node, constructed at one of    *)
(* StartTimes, is ticked at least once per slot and originates no frames   *)
(* of its own accord; the radio delivers beacons of Coord.                 *)
(***************************************************************************)
MaxBeaconTime == 3200

StartTimes == {0, 50}

BeaconIo ==
    IoSet({50, 100}, {NoRx, Rx(BeaconFromCoord)}, {TRUE}, {0}, {RSSI_CLEAR})

BeaconInit == MacInit({NodeConfig, CoordinatorConfig}, StartTimes) /\ FragNew

BeaconNext == \E io \in BeaconIo : now + io.dt <= MaxBeaconTime /\ Tick(io)

SpecBeacon == BeaconInit /\ [][BeaconNext]_vars

\* C9: a coordinator constructed at t0 (its sync_offset) and ticked in every
\* slot hands its k-th beacon to the radio no later than one slot after
\* t0 + k * superframe_duration; the beacons carry the sequence numbers
\* 0, 1, 2, ..., so after a tick the beacon with number mac.seq is not overdue.
C9_BeaconInScheduledSlot ==
    (mac.config.pan_coordinator /\ ev.op = "tick")
        => now < mac.sync_offset + (mac.seq + 1) * superframe_duration(mac.config)
                 + mac.config.base_slot_duration

\* C10: an Unsynced node that accepts a Beacon at time now ends that tick
\* Synced to the beacon's source with sync_offset = now, next_beacon =
\* now + superframe_duration and no missed beacons; a coordinator's sync_state,
\* sync_offset and next_beacon are not changed by a received beacon.
C10_BeaconSync ==
    [][ (ev'.op = "tick" /\ ev'.accepted /\ ev'.rx.packet.frame_type = "Beacon")
        => /\ (~mac.config.pan_coordinator /\ mac.sync_state = Unsynced)
                => /\ mac'.sync_state = Synced(ev'.rx.packet.source)
                   /\ mac'.sync_offset = now'
                   /\ mac'.next_beacon = now' + superframe_duration(mac.config)
                   /\ mac'.beacon_miss_count = 0
           /\ mac.config.pan_coordinator
                => /\ ev'.after_rx.sync_state = mac.sync_state
                   /\ ev'.after_rx.sync_offset = mac.sync_offset
                   /\ ev'.after_rx.next_beacon = mac.next_beacon ]_vars

\* a node constructed at 50 has just synchronised to the beacon of Coord
C10_Witness ==
    /\ ev.op = "tick" /\ ev.accepted
    /\ ev.rx.packet = BeaconFromCoord
    /\ ~mac.config.pan_coordinator
    /\ mac.sync_state = Synced(Coord)
    /\ mac.sync_offset = now
    /\ mac.assoc_state.kind = "Pending"
    /\ mac.assoc_state.expiry = now + mac.config.assoc_timeout

(***************************************************************************)
(* SpecHost: the conditions a tick meets.  The host queues Data frames     *)
(* for Peer, asks busy() and ticks once per slot; the radio driver never   *)
(* reports an error, delivers Data frames with ack_request and frames that *)
(* do not decode, and may still be transmitting at the next tick.          *)
(***************************************************************************)
MaxHostTime == 1600
MaxHostSeq == 17

HostIo ==
    IoSet({100}, {NoRx, Undecodable, Rx(DataAckFromPeer)}, {TRUE, FALSE}, {0}, {RSSI_CLEAR})

HostInit == MacInit({NodeConfig, CoordinatorConfig}, {500}) /\ FragNew

HostNext ==
    \/ mac.seq < MaxHostSeq /\ Transmit(Peer, <<1>>, FALSE)
    \/ Busy
    \/ \E io \in HostIo : now + io.dt <= MaxHostTime /\ Tick(io)

SpecHost == HostInit /\ [][HostNext]_vars

\* C11: the radio driver reporting no error, every tick returns Ok: a frame
\* that fails to decode, a full queue, a missed deadline and a radio that is
\* still transmitting are absorbed.
C11_TickOkUnlessRadioError == ev.op = "tick" => ev.result = "Ok"

\* C12: busy() returns true exactly when a CSMA attempt or an ACK is pending,
\* the node is not Associated or the TX queue is full.
C12_BusyIffPendingOrFull ==
    ev.op = "busy" =>
        ev.accepted = ( \/ mac.csma_state.pending
                        \/ mac.ack_state.pending
                        \/ mac.assoc_state.kind # "Associated"
                        \/ Len(mac.tx_buff) = 16 )

(***************************************************************************)
(* SpecSeq: sequence numbers.  After construction the host queues a burst  *)
(* of Data frames, of any length, and then ticks twice per superframe while *)
(* the radio delivers association requests, beacons and Data frames with   *)
(* ack_request.                                                            *)
(***************************************************************************)
MaxSeqTime == 2500

SeqIo ==
    IoSet({500}, {NoRx, Rx(AssocReqFromPeer), Rx(BeaconFromCoord), Rx(DataAckFromPeer)},
          {TRUE}, {0}, {RSSI_CLEAR})

SeqInit == MacInit({NodeConfig, CoordinatorConfig}, {500}) /\ FragNew

SeqNext ==
    \/ ev.op \in {"new", "transmit"} /\ Transmit(Peer, <<1>>, FALSE)
    \/ \E io \in SeqIo : now + io.dt <= MaxSeqTime /\ Tick(io)

SpecSeq == SeqInit /\ [][SeqNext]_vars

\* C13: the frames built by one call (the Data frame of transmit; in a tick
\* the AssociationResponse, the Beacon and the AssociationRequest) carry the
\* sequence numbers counter, counter + 1, ... modulo 256, and the counter
\* advances by the number of frames built: receiving frames and building
\* ACKs do not change it, an ACK carrying the number of the frame it answers.
C13_SeqIncrements ==
    [][ /\ \A i \in 1..Len(ev'.created) :
              ev'.created[i].seq = (mac.seq + i - 1) % 256
        /\ mac'.seq = (mac.seq + Len(ev'.created)) % 256
        /\ (ev'.accepted /\ ev'.rx.packet.ack_request)
              => ev'.after_rx.ack_state.packet.seq = ev'.rx.packet.seq
        /\ \A i \in 1..Len(ev'.handed) :
              ev'.handed[i].frame_type = "Acknowledgement"
                  => ev'.handed[i].seq = ev'.after_rx.ack_state.packet.seq ]_vars

\* the counter wrapped: frame 255 was followed by frame 0, built by a tick
C13_Witness ==
    /\ ev.op = "tick"
    /\ Len(ev.created) = 2
    /\ ev.created[1].seq = 255
    /\ ev.created[2].seq = 0
    /\ mac.seq = 1

(***************************************************************************)
(* SpecFifo: the order of the TX queue.  The host queues Data frames with  *)
(* and without ack_request for Peer and ticks once per slot; the radio     *)
(* delivers ACKs of Peer for the first two frames and reports a clear or a *)
(* busy channel.                                                           *)
(***************************************************************************)
MaxFifoTime == 2700
MaxFifoSeq == 3

FifoIo ==
    IoSet({100}, {NoRx, Rx(AckFrom(Peer, 0)), Rx(AckFrom(Peer, 1))}, {TRUE}, {0},
          {RSSI_CLEAR, RSSI_BUSY})

FifoInit == MacInit({NodeConfig}, {500}) /\ FragNew

FifoNext ==
    \/ \E ack \in BOOLEAN : mac.seq < MaxFifoSeq /\ Transmit(Peer, <<1>>, ack)
    \/ \E io \in FifoIo : now + io.dt <= MaxFifoTime /\ Tick(io)

SpecFifo == FifoInit /\ [][FifoNext]_vars

\* the frames of a queue, in queue order
Packets(q) == [i \in 1..Len(q) |-> q[i].packet]

InQueue(p, q) == \E i \in 1..Len(q) : q[i].packet = p

\* C14: the TX queue is strict FIFO.  In every call the frames that stay in
\* the queue are the last ones it held, in the same order (a frame is removed
\* only when every frame queued before it is removed), frames enter at the
\* tail, and a frame handed to the radio by a tick has no frame before it in
\* the queue as handle_received left it.
C14_TxQueueFifo ==
    [][ /\ \E d \in 0..Len(mac.tx_buff) :
              /\ Len(mac'.tx_buff) >= Len(mac.tx_buff) - d
              /\ \A i \in 1..(Len(mac.tx_buff) - d) :
                    mac'.tx_buff[i].packet = mac.tx_buff[d + i].packet
              /\ \A i \in (Len(mac.tx_buff) - d + 1)..Len(mac'.tx_buff) :
                    /\ ~InQueue(mac'.tx_buff[i].packet, mac.tx_buff)
                    /\ \E j \in 1..Len(ev'.created) : ev'.created[j] = mac'.tx_buff[i].packet
        /\ \A i \in 1..Len(ev'.handed) :
              \A k \in 2..Len(ev'.after_rx.tx_buff) :
                    ev'.after_rx.tx_buff[k].packet # ev'.handed[i] ]_vars

\* frame 0 was handed to the radio with frames 1 and 2 queued behind it, and
\* left the queue
C14_Witness ==
    /\ ev.op = "tick"
    /\ Len(ev.handed) = 1
    /\ ev.handed[1].seq = 0 /\ ev.handed[1].frame_type = "Data"
    /\ Len(ev.after_rx.tx_buff) = 3
    /\ Len(mac.tx_buff) = 2
    /\ mac.tx_buff[1].packet.seq = 1

(***************************************************************************)
(* SpecPan: association.  A node with the default pan_id hears the beacons *)
(* of Coord, on its own PAN, and of ForeignCoord, a coordinator of another *)
(* PAN, and receives their AssociationResponses; the host queues Data      *)
(* frames for the coordinator of its own PAN.                              *)
(***************************************************************************)
MaxPanTime == 1600
MaxPanSeq == 2

ForeignCoord == Extended(DefaultConfig.pan_id + 256, COORD_ADDRESS)

BeaconFrom(coord) == Packet_beacon(coord, 0, superframe_spec(CoordinatorConfig))

\* the response a coordinator builds for the request of Own (handle_received,
\* AssociationRequest arm): the destination is the source of the request
AssocRespFrom(coord) ==
    Packet_command(Own, coord, 1, "AssociationResponse", 65534, "Successful")

PanIo ==
    IoSet({100},
          {NoRx, Rx(BeaconFrom(Coord)), Rx(BeaconFrom(ForeignCoord)),
           Rx(AssocRespFrom(Coord)), Rx(AssocRespFrom(ForeignCoord))},
          {TRUE}, {0}, {RSSI_CLEAR})

PanInit == MacInit({NodeConfig}, {500}) /\ FragNew

PanNext ==
    \/ mac.seq < MaxPanSeq /\ Transmit(Coord, <<1>>, FALSE)
    \/ \E io \in PanIo : now + io.dt <= MaxPanTime /\ Tick(io)

SpecPan == PanInit /\ [][PanNext]_vars

HasPan(a, pan) == a.kind = "None" \/ a.pan = pan \/ a.pan = BROADCAST_PAN

\* C15: a frame handed to the radio by a tick in which the Mac is
\* Associated(p) carries p or the broadcast PAN in its source and in its
\* destination address.
C15_OutboundPanIsAssociated ==
    (ev.op = "tick" /\ ev.after_rx.assoc_state.kind = "Associated")
        => \A i \in 1..Len(ev.handed) :
              /\ HasPan(ev.handed[i].source, ev.after_rx.assoc_state.pan)
              /\ HasPan(ev.handed[i].destination, ev.after_rx.assoc_state.pan)

(***************************************************************************)
(* SpecFragHeader: the fragmentation header codec, as the test             *)
(* frag_header drives it: a header is encoded into a zeroed buffer and the *)
(* bytes written are decoded.                                              *)
(***************************************************************************)
DatagramSizes == {0, 1, 7, 8, 100, IPV6_MTU, 2047}
DatagramTags == {0, 1, 14, 255, 256, 4660, 65535}
DatagramOffsets == {{}, {0}, {8}, {255}}

FragHeaderInit == MacInit({NodeConfig}, {0}) /\ FragNew

FragHeaderCodec(h) ==
    /\ fev' = [op |-> "frag_header", some |-> TRUE, err |-> "Ok", h |-> h,
               n |-> Len(FragHeader_encode(h)),
               decoded |-> FragHeader_decode(FragHeader_encode(h))]
    /\ UNCHANGED <<frag_a, frag_b, flog, now, macvars, basevars, corevars>>

FragHeaderNext ==
    \E size \in DatagramSizes, tag \in DatagramTags, offset \in DatagramOffsets :
        FragHeaderCodec(FragHeader(size, tag, offset))

SpecFragHeader == FragHeaderInit /\ [][FragHeaderNext]_vars

\* C16: decoding an encoded FragHeader returns the header and the number of
\* bytes encode wrote, 4 without and 5 with a datagram_offset.
C16_FragHeaderRoundTrip ==
    fev.op = "frag_header" =>
        /\ fev.decoded.h = fev.h
        /\ fev.decoded.n = fev.n
        /\ fev.n = IF fev.h.datagram_offset = {} THEN 4 ELSE 5

(***************************************************************************)
(* The calls on the two fragmentation managers, as the tests of            *)
(* sixlo/frag.rs make them: A.transmit, A.poll, B.receive of a fragment    *)
(* polled from A, B.pop.                                                   *)
(***************************************************************************)
AddrA == Short(1, 1)
AddrB == Short(1, 2)

\* the datagram of the tests: byte i is i as u8
Datagram(len) == [i \in 1..len |-> (i - 1) % 256]

FragTransmit(dest, hdr, d) ==
    /\ flog.sent = <<>>
    /\ \E r \in {Frag_transmit(frag_a, now, dest, hdr, d)} :
          /\ frag_a' = r.f
          /\ fev' = [op |-> "transmit", some |-> FALSE, err |-> r.err]
          /\ flog' = [flog EXCEPT !.sent = <<[addr |-> dest, header |-> hdr, data |-> d]>>]
    /\ UNCHANGED <<frag_b, now, macvars, basevars, corevars>>

FragPoll ==
    /\ \E r \in {Frag_poll(frag_a, now, PollOptions_default)} :
          /\ frag_a' = r.f
          /\ fev' = [op |-> "poll", some |-> r.some, err |-> "Ok"]
          /\ flog' = IF r.some
                     THEN [flog EXCEPT !.emitted =
                              Append(@, [addr |-> r.addr, header |-> r.header, data |-> r.data])]
                     ELSE flog
    /\ UNCHANGED <<frag_b, now, macvars, basevars, corevars>>

\* B.receive of the i-th fragment polled from A
FragDeliver(i) ==
    /\ i \in (1..Len(flog.emitted)) \ flog.received
    /\ \E r \in {Frag_receive(frag_b, now, AddrA, flog.emitted[i].header, flog.emitted[i].data)} :
          /\ frag_b' = r.f
          /\ fev' = [op |-> "receive", some |-> FALSE, err |-> r.err]
          /\ flog' = [flog EXCEPT !.received = @ \cup {i}]
    /\ UNCHANGED <<frag_a, now, macvars, basevars, corevars>>

FragPop ==
    /\ \E r \in {Frag_pop(frag_b)} :
          /\ frag_b' = r.f
          /\ fev' = [op |-> "pop", some |-> r.some, err |-> "Ok"]
          /\ flog' = IF r.some
                     THEN [flog EXCEPT !.popped =
                              Append(@, [addr |-> r.addr, header |-> r.header, data |-> r.data])]
                     ELSE flog
    /\ UNCHANGED <<frag_a, now, macvars, basevars, corevars>>

\* A has handed out every fragment and B has received every one of them
AllReceived ==
    /\ \A i \in 1..FRAG_SLOTS : frag_a.buffs[i].state # "Tx"
    /\ flog.received = 1..Len(flog.emitted)

(***************************************************************************)
(* SpecFrag: one datagram from A to B, fragments delivered in the order    *)
(* of their emission.                                                      *)
(***************************************************************************)
MaxDatagramLen == 260

DatagramLens == (1..MaxDatagramLen) \cup {IPV6_MTU - MAX_FRAG_SIZE, IPV6_MTU - 1, IPV6_MTU}

SentHeaders ==
    { Header_default,
      [Header_default EXCEPT !.mesh = {"mesh"}],
      [Header_default EXCEPT !.frag = {FragHeader(5, 9, {})}] }

FragInit == MacInit({NodeConfig}, {0}) /\ FragNew

FragNext ==
    \/ \E len \in DatagramLens : \E hdr \in SentHeaders :
          FragTransmit(AddrB, hdr, Datagram(len))
    \/ FragPoll
    \/ FragDeliver(Cardinality(flog.received) + 1)
    \/ FragPop

SpecFrag == FragInit /\ [][FragNext]_vars

\* C6: for a datagram fragmented by A and delivered in emission order to B,
\* B.pop returns exactly one datagram in total; its payload is the original
\* and its header the transmitted header without fragment header.
C6_RoundTrip ==
    flog.sent # <<>> =>
        /\ Len(flog.popped) <= 1
        /\ \A k \in 1..Len(flog.popped) :
              /\ flog.popped[k].data = flog.sent[1].data
              /\ flog.popped[k].header = [flog.sent[1].header EXCEPT !.frag = {}]
              /\ flog.popped[k].addr = AddrA
        /\ (AllReceived /\ fev.op = "pop" /\ ~fev.some) => Len(flog.popped) = 1

\* the datagram of IPV6_MTU bytes with a mesh header went through and a
\* further pop returned nothing
C6_Witness ==
    /\ flog.sent # <<>>
    /\ Len(flog.sent[1].data) = IPV6_MTU
    /\ flog.sent[1].header.mesh # {}
    /\ AllReceived
    /\ fev.op = "pop" /\ ~fev.some
    /\ Len(flog.popped) = 1
    /\ flog.popped[1].data = Datagram(IPV6_MTU)

\* C8: a Tx slot with len bytes emits exactly ceil(len / MAX_FRAG_SIZE)
\* fragments, the k-th covering the bytes from k * MAX_FRAG_SIZE with
\* datagram_size len, the slot's tag and datagram_offset k * MAX_FRAG_SIZE / 8
\* (none for the first), and the slot is freed by the last of these polls.
C8_FragmentsEmitted ==
    flog.sent # <<>> =>
        LET d == flog.sent[1].data
            n == Len(flog.sent[1].data)
            nf == (Len(flog.sent[1].data) + MAX_FRAG_SIZE - 1) \div MAX_FRAG_SIZE
        IN  /\ Len(flog.emitted) <= nf
            /\ \A k \in 1..Len(flog.emitted) :
                  /\ flog.emitted[k].data =
                        [i \in 1..(Min(k * MAX_FRAG_SIZE, n) - (k - 1) * MAX_FRAG_SIZE) |->
                            d[(k - 1) * MAX_FRAG_SIZE + i]]
                  /\ flog.emitted[k].header.frag =
                        {FragHeader(n, 0, IF k = 1 THEN {}
                                          ELSE {((k - 1) * MAX_FRAG_SIZE) \div 8})}
            /\ (Len(flog.emitted) = nf) <=> (frag_a.buffs[1].state = "None")

(***************************************************************************)
(* SpecFragAnyOrder: one datagram from A to B, every fragment delivered    *)
(* once, in any order.                                                     *)
(***************************************************************************)
MaxAnyOrderLen == 200

AnyOrderNext ==
    \/ \E len \in 1..MaxAnyOrderLen : FragTransmit(AddrB, Header_default, Datagram(len))
    \/ FragPoll
    \/ \E i \in 1..Len(flog.emitted) : FragDeliver(i)

SpecFragAnyOrder == FragInit /\ [][AnyOrderNext]_vars

\* C7: for the fragments of one datagram delivered in any order, a reassembly
\* slot for (source, tag) is Done iff its mask is (1 << num_frags) - 1, which
\* is the case exactly when every emitted fragment has been received, and the
\* payload of a Done slot is the original datagram.
C7_DoneWhenAllReceived ==
    flog.sent # <<>> =>
        LET nf == (Len(flog.sent[1].data) + MAX_FRAG_SIZE - 1) \div MAX_FRAG_SIZE
            slots == {i \in 1..FRAG_SLOTS :
                        /\ frag_b.buffs[i].state \in {"Rx", "Done"}
                        /\ frag_b.buffs[i].addr = AddrA
                        /\ frag_b.buffs[i].tag = 0}
        IN  /\ \A i \in slots :
                  (frag_b.buffs[i].state = "Done") <=> (frag_b.buffs[i].mask = Pow2(nf) - 1)
            /\ (\E i \in slots : frag_b.buffs[i].state = "Done") <=> AllReceived
            /\ \A i \in slots :
                  frag_b.buffs[i].state = "Done"
                      => FragBuffer_data(frag_b.buffs[i]) = flog.sent[1].data


(***************************************************************************)
(* SpecSixLo: one datagram through two 6LoWPAN stacks.  The host of A      *)
(* calls SixLo::transmit for B with a datagram of any first byte; the      *)
(* payload of the Data frame A's Mac queued is what B's Mac returns from   *)
(* receive during B's tick, which passes it to handle_rx; the host of B    *)
(* calls SixLo::receive.                                                   *)
(***************************************************************************)
MaxFirstByte == 7
MaxSixLoLen == 13

\* a datagram of length len whose first byte is first
DatagramFrom(first, len) == [i \in 1..len |-> IF i = 1 THEN first ELSE (i - 1) % 256]

SixLoDatagrams ==
    { DatagramFrom(first, len) :
        first \in (0..MaxFirstByte) \cup {96, 99},
        len \in (1..MaxSixLoLen) \cup {MAX_PAYLOAD - 1, MAX_PAYLOAD, IPV6_MTU} }

SixLoInit == MacInit({CoordinatorConfig}, {0}) /\ FragNew

\* A's SixLo::transmit
SixLoCall(dest, d) ==
    /\ \E r \in {SixLo_transmit(mac, frag_a, now, dest, d)} :
          /\ mac' = r.m
          /\ frag_a' = r.f
          /\ ev' = IF r.direct
                   THEN [EvInit(r.m) EXCEPT !.op = "transmit",
                                            !.packet = r.m.tx_buff[Len(r.m.tx_buff)].packet,
                                            !.created = <<r.m.tx_buff[Len(r.m.tx_buff)].packet>>]
                   ELSE ev
          /\ fev' = [op |-> "sixlo_transmit", some |-> r.direct, err |-> r.err]
          /\ flog' = [flog EXCEPT !.sent =
                        Append(@, [addr |-> dest, header |-> Header_default, data |-> d])]
    /\ UNCHANGED <<frag_b, now, csma_log, basevars, corevars>>

SixLoTransmit(dest, d) == flog.sent = <<>> /\ SixLoCall(dest, d)

\* B's tick: its Mac returns the payload and the source of the i-th frame A queued
SixLoHandleRx(i) ==
    /\ i \in (1..Len(mac.tx_buff)) \ flog.received
    /\ \E r \in {SixLo_handle_rx(frag_b, now, mac.tx_buff[i].packet.source,
                                  mac.tx_buff[i].packet.payload)} :
          /\ frag_b' = r.f
          /\ fev' = [op |-> "handle_rx", some |-> FALSE, err |-> r.err]
          /\ flog' = [flog EXCEPT !.received = @ \cup {i}]
    /\ UNCHANGED <<frag_a, now, macvars, basevars, corevars>>

SixLoNext ==
    \/ \E d \in SixLoDatagrams : SixLoTransmit(AddrB, d)
    \/ \E i \in 1..QUEUE_CAPACITY : SixLoHandleRx(i)
    \/ FragPop

SpecSixLo == SixLoInit /\ [][SixLoNext]_vars

DoneSlots(f) == {i \in 1..FRAG_SLOTS : f.buffs[i].state = "Done"}

\* C17: a datagram that fits in one MAC payload is sent as one Data frame
\* whose payload is the datagram, without a fragment header; B's handle_rx
\* turns the frame into exactly one Done slot, and receive returns the bytes
\* of the datagram, whatever its first byte.
C17_PassthroughDelivers ==
    /\ (fev.op = "sixlo_transmit" /\ Len(flog.sent[1].data) < MAX_PAYLOAD)
          => /\ fev.err = "Ok"
             /\ Len(mac.tx_buff) = 1
             /\ mac.tx_buff[1].packet.payload = flog.sent[1].data
    /\ fev.op = "handle_rx"
          => /\ fev.err = "Ok"
             /\ Cardinality(DoneSlots(frag_b)) = 1
             /\ \A i \in DoneSlots(frag_b) :
                   FragBuffer_data(frag_b.buffs[i]) = flog.sent[1].data
    /\ (fev.op = "pop" /\ flog.received # {})
          => /\ Len(flog.popped) = 1
             /\ flog.popped[1].data = flog.sent[1].data


(***************************************************************************)
(* SpecSlots: the four slots of A's fragmentation manager.  The manager is *)
(* new, or has already numbered 65534 datagrams that have all left their   *)
(* slots; the host calls SixLo::transmit with datagrams that need          *)
(* fragmenting (and one that does not) and A's tick polls the manager.     *)
(***************************************************************************)
MaxSlotCalls == 5
MaxUsedTag == 65534

SlotDatagrams == {Datagram(5), Datagram(MAX_PAYLOAD)}

SlotsInit ==
    /\ MacInit({CoordinatorConfig}, {500})
    /\ frag_a \in {Frag_new(FragConfig_default),
                    [Frag_new(FragConfig_default) EXCEPT !.tag = MaxUsedTag]}
    /\ frag_b = Frag_new(FragConfig_default)
    /\ fev = [op |-> "new", some |-> FALSE, err |-> "Ok"]
    /\ flog = [sent |-> <<>>, emitted |-> <<>>, received |-> {}, popped |-> <<>>]

SlotsNext ==
    \/ \E d \in SlotDatagrams : Len(flog.sent) < MaxSlotCalls /\ SixLoCall(AddrB, d)
    \/ FragPoll

SpecSlots == SlotsInit /\ [][SlotsNext]_vars

FreeSlots(f) == {i \in 1..FRAG_SLOTS : f.buffs[i].state = "None"}

\* C18: a SixLo::transmit that goes to Frag::transmit returns NoTxFragSlots
\* and leaves the manager as it was when no slot is free; otherwise it
\* returns Ok, exactly one slot that was free becomes Tx with the counter's
\* value as tag and timeout now + frag_tx_timeout_ms, the other slots are
\* unchanged, and the counter advances by one modulo 65536.
C18_TransmitSlots ==
    [][ (fev'.op = "sixlo_transmit" /\ ~fev'.some)
        => /\ FreeSlots(frag_a) = {}
                => fev'.err = "NoTxFragSlots" /\ frag_a' = frag_a
           /\ FreeSlots(frag_a) # {}
                => /\ fev'.err = "Ok"
                   /\ frag_a'.tag = (frag_a.tag + 1) % 65536
                   /\ \E i \in FreeSlots(frag_a) :
                         /\ frag_a'.buffs[i].state = "Tx"
                         /\ frag_a'.buffs[i].tag = frag_a.tag
                         /\ frag_a'.buffs[i].timeout = now + frag_a.config.frag_tx_timeout_ms
                         /\ \A j \in (1..FRAG_SLOTS) \ {i} :
                               frag_a'.buffs[j] = frag_a.buffs[j] ]_vars

\* the fifth datagram found the four slots taken by the datagrams numbered
\* 65534, 65535, 0 and 1
C18_Witness ==
    /\ fev.op = "sixlo_transmit"
    /\ fev.err = "NoTxFragSlots"
    /\ frag_a.tag = 2
    /\ \A i \in 1..FRAG_SLOTS :
          /\ frag_a.buffs[i].state = "Tx"
          /\ frag_a.buffs[i].tag = (MaxUsedTag + i - 1) % 65536
          /\ frag_a.buffs[i].timeout = now + frag_a.config.frag_tx_timeout_ms


(***************************************************************************)
(* SpecBase: a Base on its own, as the tests of base.rs drive it.  The     *)
(* host calls sleep, transmit, receive and tick in any order; the radio    *)
(* driver reports a received packet or not, a completed transmission or    *)
(* not, and answers the calls of one Base method with an error or not.     *)
(***************************************************************************)
MaxBaseTime == 5

BaseCtx(fail) == [Ctx([base |-> base]) EXCEPT !.fail = fail]

Bev(op, c, some, io) ==
    [op |-> op, err |-> c.err, radio |-> c.radio, some |-> some, fail |-> c.fail,
     rx_done |-> io.rx.some, tx_done |-> io.tx_done]

BaseIo == IoSet({1}, {NoRx, Rx(DataFromPeer)}, BOOLEAN, {0}, {RSSI_CLEAR})

BaseCall(op, c, some, io) ==
    /\ base' = c.m.base
    /\ bev' = Bev(op, c, some, io)
    /\ UNCHANGED <<macvars, fragvars, corevars>>

\* sleep, transmit and receive do not ask the radio for completions
NoIo == [dt |-> 0, rx |-> NoRx, tx_done |-> FALSE, rand |-> 0, rssi |-> 0]

BaseSleep(fail) ==
    /\ now' = now
    /\ BaseCall("sleep", Base_sleep(BaseCtx(fail)), FALSE, NoIo)

BaseTransmit(fail) ==
    /\ now' = now
    /\ BaseCall("transmit", Base_transmit(BaseCtx(fail), DataFromPeer), FALSE, NoIo)

BaseReceive(fail) ==
    /\ now' = now
    /\ BaseCall("receive", Base_receive(BaseCtx(fail)), FALSE, NoIo)

BaseTick(io, fail) ==
    /\ now + io.dt <= MaxBaseTime
    /\ now' = now + io.dt
    /\ \E b \in {Base_tick(BaseCtx(fail), io)} : BaseCall("tick", b.c, b.rx.some, io)

BaseInit == MacInit({NodeConfig}, {0}) /\ FragNew

BaseNext ==
    \E fail \in BOOLEAN :
        \/ BaseSleep(fail)
        \/ BaseTransmit(fail)
        \/ BaseReceive(fail)
        \/ \E io \in BaseIo : BaseTick(io, fail)

SpecBase == BaseInit /\ [][BaseNext]_vars

\* the state a successful call of the method leaves
BaseTarget(op) ==
    CASE op = "sleep" -> "Sleeping"
      [] op = "transmit" -> "Transmitting"
      [] op = "receive" -> "Listening"

C20_BaseTick ==
    [][ /\ (bev'.op = "tick" /\ ~bev'.fail)
           => /\ bev'.err = "Ok"
              /\ base = "Transmitting"
                   => /\ ~bev'.some
                      /\ bev'.tx_done
                           => /\ base' = "Listening"
                              /\ bev'.radio = <<"check_transmit", "start_receive">>
                      /\ ~bev'.tx_done => base' = "Transmitting"
              /\ base = "Listening"
                   => /\ bev'.some = bev'.rx_done
                      /\ base' = "Listening"
                      /\ bev'.some => bev'.radio[Len(bev'.radio)] = "start_receive"
              /\ base \in {"Idle", "Sleeping"}
                   => base' = base /\ bev'.radio = <<>> /\ ~bev'.some
        /\ (base = "Transmitting" /\ base' # "Transmitting")
           => bev'.op = "tick" /\ bev'.tx_done ]_vars

\* a tick found the transmission complete and went back to Listening
C20_Witness ==
    /\ bev.op = "tick"
    /\ bev.tx_done
    /\ bev.radio = <<"check_transmit", "start_receive">>
    /\ base = "Listening"
    /\ ~bev.some

(***************************************************************************)
(* SpecAttempt: one CSMA attempt after the other.  The host queues Data    *)
(* frames for Peer, the first with ack_request, and ticks once per slot;   *)
(* the radio delivers the ACK of Peer for the first frame, reports a clear *)
(* or a busy channel and the random generator returns AttemptRands.        *)
(***************************************************************************)
MaxAttemptTime == 3600
MaxAttemptSeq == 2

AttemptRands == {0, 1}

AttemptIo ==
    IoSet({100}, {NoRx, Rx(AckFrom(Peer, 0))}, {TRUE}, AttemptRands, {RSSI_CLEAR, RSSI_BUSY})

AttemptInit == MacInit({NodeConfig}, {500}) /\ FragNew

AttemptNext ==
    \/ mac.seq < MaxAttemptSeq /\ Transmit(Peer, <<1>>, mac.seq = 0)
    \/ \E io \in AttemptIo : now + io.dt <= MaxAttemptTime /\ Tick(io)

SpecAttempt == AttemptInit /\ [][AttemptNext]_vars

\* C21: whenever a CSMA attempt is pending, its packet is the entry at the
\* head of the TX queue, so that the dequeue made when the attempt completes
\* or is abandoned removes the packet the attempt was for.
C21_CsmaPacketIsQueueHead ==
    mac.csma_state.pending =>
        /\ mac.tx_buff # <<>>
        /\ Head(mac.tx_buff).packet = mac.csma_state.packet

\* C22: while a CSMA attempt is pending, a clear-channel assessment that
\* reads RSSI above channel_clear_threshold adds exactly one to the attempt's
\* retries and clears its target slot; the frame is abandoned exactly when the
\* attempt has accumulated csma_max_backoffs busy assessments, and abandoning
\* removes the frame from the TX queue, sets csma_state to None and adds one
\* to the CSMA CCA-fail counter.
C22_AbandonAfterMaxBackoffs ==
    /\ [](mac.csma_state.pending => ev.cca_busy <= mac.config.csma_max_backoffs)
    /\ [][ /\ (ev'.op = "tick" /\ ev'.cca_busy = ev.cca_busy + 1)
                => /\ mac'.csma_state.retries = mac.csma_state.retries + 1
                   /\ mac'.csma_state.tx_slot = 0
           /\ (mac'.stats.csma_cca_fail # mac.stats.csma_cca_fail)
                => /\ ev.cca_busy = mac.config.csma_max_backoffs
                   /\ mac'.stats.csma_cca_fail = mac.stats.csma_cca_fail + 1
                   /\ mac'.csma_state = CsmaNone
                   /\ ~InQueue(mac.csma_state.packet, mac'.tx_buff) ]_vars

(***************************************************************************)
(* SpecCap: beacons and CSMA on a coordinator.  A coordinator with the     *)
(* default configuration, or with backoff exponents that let a backoff     *)
(* reach the first slot of a later superframe, is ticked once per slot;    *)
(* the host queues Data frames for Peer at any time, the channel reads     *)
(* clear or busy and the random generator returns any value that gives a   *)
(* different backoff.                                                      *)
(***************************************************************************)
MaxCapTime == 3600
MaxCapSeq == 2
MaxCapRand == 30

WideBackoffConfig ==
    [CoordinatorConfig EXCEPT !.battery_life_extension = FALSE, !.min_be = 4]

CapIo == IoSet({100}, {NoRx}, {TRUE}, 0..MaxCapRand, {RSSI_CLEAR, RSSI_BUSY})

CapInit == MacInit({CoordinatorConfig, WideBackoffConfig}, {500}) /\ FragNew

CapNext ==
    \/ mac.seq < MaxCapSeq /\ ev.op = "tick" /\ Transmit(Peer, <<1>>, FALSE)
    \/ \E io \in CapIo : now + io.dt <= MaxCapTime /\ Tick(io)

SpecCap == CapInit /\ [][CapNext]_vars

\* the frames of frame type ft among those a tick handed to the radio
HandedOfType(ft) == {i \in 1..Len(ev.handed) : ev.handed[i].frame_type \in ft}

\* C23: a coordinator hands a beacon to the radio only in a slot with
\* rsn = 0 and a frame sent by CSMA (Data or MAC command) only in a slot with
\* rsn >= 1, so never both in the same slot, whatever backoff is drawn.
C23_BeaconAndCsmaSlotsDisjoint ==
    (mac.config.pan_coordinator /\ ev.op = "tick")
        => /\ HandedOfType({"Beacon"}) # {}
                => calculate_rsn(mac.config, now, mac.sync_offset) = 0
           /\ HandedOfType({"Data", "MacCommand"}) # {}
                => calculate_rsn(mac.config, now, mac.sync_offset) >= 1

\* the backoff drawn put the CSMA slot on the first slot of the next-but-one
\* superframe: in that slot the beacon is handed to the radio and the Data
\* frame is not
C23_Witness ==
    /\ mac.config.pan_coordinator /\ ev.op = "tick"
    /\ calculate_rsn(mac.config, now, mac.sync_offset) = 0
    /\ HandedOfType({"Beacon"}) = {1}
    /\ HandedOfType({"Data", "MacCommand"}) = {}
    /\ mac.csma_state.pending
    /\ mac.csma_state.tx_slot = calculate_asn(mac.config, now, mac.sync_offset)

(***************************************************************************)
(* SpecSyncLoss: a node that loses its coordinator.  A node constructed at *)
(* 500 ms is ticked once per slot; the radio delivers one beacon of Coord, *)
(* at one of the first ticks, and nothing after it.  The node sends its    *)
(* AssociationRequests, which nobody answers.                              *)
(***************************************************************************)
MaxLossTime == 31200
MaxFirstBeaconTime == 1000

LossIo == IoSet({100}, {NoRx, Rx(BeaconFromCoord)}, {TRUE}, {0}, {RSSI_CLEAR})

LossInit == MacInit({NodeConfig}, {500}) /\ FragNew

LossNext ==
    \E io \in LossIo :
        /\ now + io.dt <= MaxLossTime
        /\ io.rx.some => (mac.seq = 0 /\ now + io.dt <= MaxFirstBeaconTime)
        /\ Tick(io)

SpecSyncLoss == LossInit /\ [][LossNext]_vars

\* the expected beacons of a node synchronised at sync_offset whose deadline
\* passed at least one superframe before t
ExpectedBeaconsMissed(m, t) ==
    IF t < m.sync_offset + m.config.mac_deadline + 2 * superframe_duration(m.config) THEN 0
    ELSE ((t - m.sync_offset - m.config.mac_deadline) \div superframe_duration(m.config)) - 1

\* C24: a Synced node that receives no further beacon and is ticked in every
\* slot counts one miss for every expected beacon whose deadline
\* next_beacon + mac_deadline has passed (here: passed a superframe ago or
\* longer), and is Unsynced once the count exceeds max_beacon_misses, so that
\* it does not stay Synced for ever.
C24_BeaconMissesCounted ==
    (ev.op = "tick" /\ ~mac.config.pan_coordinator /\ mac.sync_state.synced)
        => /\ mac.beacon_miss_count >= ExpectedBeaconsMissed(mac, now)
           /\ mac.beacon_miss_count <= mac.config.max_beacon_misses

\* the AssociationRequests among the frames a tick built
RequestsCreated(e) ==
    {i \in 1..Len(e.created) : e.created[i].content.cmd = "AssociationRequest"}

\* C27: the tick that finds the node Synced(parent) and Unassociated builds
\* exactly one AssociationRequest for parent, with ack_request, appends it to
\* the TX queue and sets assoc_state = Pending(parent, now + assoc_timeout);
\* the first tick with now > expiry that finds assoc_state Pending(_, expiry)
\* sets it to Unassociated, whatever the sync state.
C27_AssociationRequestAndTimeout ==
    [][ (ev'.op = "tick" /\ ev'.result = "Ok")
        => /\ (mac'.sync_state.synced /\ ev'.after_rx.assoc_state.kind = "Unassociated")
                => /\ mac'.assoc_state =
                          AssocPending(mac'.sync_state.parent, now' + mac.config.assoc_timeout)
                   /\ Cardinality(RequestsCreated(ev')) = 1
                   /\ \A i \in RequestsCreated(ev') :
                         /\ ev'.created[i].destination = mac'.sync_state.parent
                         /\ ev'.created[i].ack_request
                         /\ InQueue(ev'.created[i], mac'.tx_buff)
           /\ (ev'.after_rx.assoc_state.kind = "Pending"
                  /\ now' > ev'.after_rx.assoc_state.expiry)
                => mac'.assoc_state = Unassociated ]_vars

\* C29: on a node that is not a PAN coordinator next_beacon changes only in
\* a tick that accepts a beacon, the first one while Unsynced or one from the
\* parent, or is reset to 0 when synchronisation is lost; the beacon-slot step
\* of a tick with now >= next_beacon leaves it as it is.
C29_NextBeaconSetOnReceiptOnly ==
    [][ (ev'.op = "tick" /\ ~mac.config.pan_coordinator
            /\ mac'.next_beacon # mac.next_beacon)
        => \/ /\ ev'.accepted
              /\ ev'.rx.packet.frame_type = "Beacon"
              /\ (~mac.sync_state.synced \/ ev'.rx.packet.source = mac.sync_state.parent)
           \/ /\ mac'.next_beacon = 0
              /\ mac.sync_state.synced
              /\ ~mac'.sync_state.synced ]_vars

(***************************************************************************)
(* SpecResync: a synchronised node hearing beacons.  A node constructed at *)
(* 500 ms is ticked once or twice per slot; the radio delivers beacons of  *)
(* Coord, to which the node synchronises first, and of OtherCoord, a       *)
(* second coordinator of the same PAN, early, on time and late.            *)
(***************************************************************************)
MaxResyncTime == 3000

OtherCoord == Extended(DefaultConfig.pan_id, COORD_ADDRESS + 1)

ResyncIo ==
    IoSet({50, 100}, {NoRx, Rx(BeaconFrom(Coord)), Rx(BeaconFrom(OtherCoord))},
          {TRUE}, {0}, {RSSI_CLEAR})

ResyncInit == MacInit({NodeConfig}, {500}) /\ FragNew

ResyncNext ==
    \E io \in ResyncIo :
        /\ now + io.dt <= MaxResyncTime
        /\ (io.rx = Rx(BeaconFrom(OtherCoord))) => mac.sync_state.synced
        /\ Tick(io)

SpecResync == ResyncInit /\ [][ResyncNext]_vars

\* the correction the offset of a beacon asks for: half of delta, in the
\* direction of delta, when |delta| is below a tenth of the superframe
HalfDeltaCorrection(delta, sd) ==
    IF Abs(delta) < sd \div 10
    THEN (IF delta < 0 THEN -(Abs(delta) \div 2) ELSE Abs(delta) \div 2)
    ELSE 0

\* C30: a Synced node that accepts a beacon of its parent at time now moves
\* sync_offset by half of delta = (now - next_beacon) mod superframe_duration
\* if |delta| < superframe_duration / 10 and leaves it unchanged otherwise,
\* and sets next_beacon = now + superframe_duration and beacon_miss_count = 0;
\* a beacon of another source changes none of sync_state, sync_offset,
\* next_beacon and beacon_miss_count.
C30_BeaconCorrection ==
    [][ (ev'.op = "tick" /\ ev'.accepted /\ ev'.rx.packet.frame_type = "Beacon"
            /\ ~mac.config.pan_coordinator /\ mac.sync_state.synced)
        => IF ev'.rx.packet.source = mac.sync_state.parent
           THEN /\ ev'.after_rx.sync_offset = mac.sync_offset +
                      HalfDeltaCorrection(
                          RemI64(now' - mac.next_beacon, superframe_duration(mac.config)),
                          superframe_duration(mac.config))
                /\ ev'.after_rx.next_beacon = now' + superframe_duration(mac.config)
                /\ ev'.after_rx.beacon_miss_count = 0
                /\ ev'.after_rx.sync_state = mac.sync_state
           ELSE /\ ev'.after_rx.sync_state = mac.sync_state
                /\ ev'.after_rx.sync_offset = mac.sync_offset
                /\ ev'.after_rx.next_beacon = mac.next_beacon
                /\ ev'.after_rx.beacon_miss_count = mac.beacon_miss_count ]_vars

(***************************************************************************)
(* SpecAssoc: the association commands.  A node or a coordinator           *)
(* constructed at 500 ms is ticked once per slot; the radio delivers the   *)
(* beacons of Coord and of ForeignCoord, their successful                  *)
(* AssociationResponses, a refusal of Coord, and the AssociationRequest of *)
(* Peer.                                                                   *)
(***************************************************************************)
MaxAssocTime == 1000

\* a response of coord that refuses the association
AssocRefusalFrom(coord) ==
    Packet_command(Own, coord, 1, "AssociationResponse", 65535, "PanAtCapacity")

AssocIo ==
    IoSet({100},
          {NoRx, Rx(BeaconFrom(Coord)), Rx(BeaconFrom(ForeignCoord)),
           Rx(AssocRespFrom(Coord)), Rx(AssocRespFrom(ForeignCoord)),
           Rx(AssocRefusalFrom(Coord)), Rx(AssocReqFromPeer)},
          {TRUE}, {0}, {RSSI_CLEAR})

AssocInit == MacInit({NodeConfig, CoordinatorConfig}, {500}) /\ FragNew

AssocNext == \E io \in AssocIo : now + io.dt <= MaxAssocTime /\ Tick(io)

SpecAssoc == AssocInit /\ [][AssocNext]_vars

\* the frame a tick accepted is a MAC command cmd
AcceptedCommand(e, cmd) ==
    /\ e.op = "tick" /\ e.accepted
    /\ e.rx.packet.content.kind = "Command"
    /\ e.rx.packet.content.cmd = cmd

\* C25: on a node that is not a coordinator assoc_state becomes Associated
\* only in a tick that accepts a Successful AssociationResponse while
\* assoc_state = Pending(parent, _) and the source is parent, and is then
\* Associated(PAN of the source); an accepted response in another assoc_state
\* or from another source leaves assoc_state as it was, and a response of the
\* parent that is not Successful makes it Unassociated.
C25_AssociatedOnlyByParentResponse ==
    [][ (ev'.op = "tick" /\ ~mac.config.pan_coordinator)
        => /\ (mac'.assoc_state.kind = "Associated" /\ mac.assoc_state.kind # "Associated")
                => /\ AcceptedCommand(ev', "AssociationResponse")
                   /\ ev'.rx.packet.content.status = "Successful"
                   /\ mac.assoc_state.kind = "Pending"
                   /\ ev'.rx.packet.source = mac.assoc_state.parent
                   /\ mac'.assoc_state = Associated(ev'.rx.packet.source.pan)
           /\ AcceptedCommand(ev', "AssociationResponse")
                => IF mac.assoc_state.kind = "Pending"
                      /\ ev'.rx.packet.source = mac.assoc_state.parent
                   THEN ev'.after_rx.assoc_state =
                            IF ev'.rx.packet.content.status = "Successful"
                            THEN Associated(ev'.rx.packet.source.pan)
                            ELSE Unassociated
                   ELSE ev'.after_rx.assoc_state = mac.assoc_state ]_vars

\* the node synchronised to ForeignCoord and accepted its response: it is
\* Associated with the PAN of ForeignCoord
C25_Witness ==
    /\ AcceptedCommand(ev, "AssociationResponse")
    /\ ev.rx.packet = AssocRespFrom(ForeignCoord)
    /\ ~mac.config.pan_coordinator
    /\ mac.sync_state = Synced(ForeignCoord)
    /\ mac.assoc_state = Associated(ForeignCoord.pan)
    /\ mac.seq = 1

\* C26: only a PAN coordinator answers an AssociationRequest.  A coordinator
\* that accepts one appends exactly one AssociationResponse(0xFFFE,
\* Successful) for the requester, with ack_request, to the TX queue; a node
\* that is not a PAN coordinator builds no frame and changes no state.
C26_CoordinatorAnswersRequest ==
    [][ AcceptedCommand(ev', "AssociationRequest")
        => IF mac.config.pan_coordinator
           THEN /\ Len(ev'.after_rx.tx_buff) = Len(mac.tx_buff) + 1
                /\ LET resp == ev'.after_rx.tx_buff[Len(ev'.after_rx.tx_buff)].packet
                   IN  /\ resp.content.cmd = "AssociationResponse"
                       /\ resp.content.assoc_addr = 65534
                       /\ resp.content.status = "Successful"
                       /\ resp.destination = ev'.rx.packet.source
                       /\ resp.ack_request
           ELSE /\ ev'.after_rx = mac
                /\ ev'.created = <<>> ]_vars

(***************************************************************************)
(* SpecFilter: the filters of handle_received.  A node or a coordinator    *)
(* constructed at 500 ms is ticked once per slot; the radio delivers the   *)
(* beacon and the AssociationResponse of Coord, and Data frames with       *)
(* ack_request for the node, for another extended address, for a short     *)
(* address and for the node's address on another PAN.                      *)
(***************************************************************************)
MaxFilterTime == 1000

DataFor(dest) == Packet_data(dest, Peer, 7, <<1>>, TRUE)

OtherExtended == Extended(DefaultConfig.pan_id, OWN_ADDRESS + 1)
OtherShort == Short(DefaultConfig.pan_id, 1)
OwnOnForeignPan == Extended(ForeignCoord.pan, OWN_ADDRESS)

FilterIo ==
    IoSet({100},
          {NoRx, Rx(BeaconFrom(Coord)), Rx(AssocRespFrom(Coord)), Rx(DataFor(Own)),
           Rx(DataFor(OtherExtended)), Rx(DataFor(OtherShort)), Rx(DataFor(OwnOnForeignPan))},
          {TRUE}, {0}, {RSSI_CLEAR})

FilterInit == MacInit({NodeConfig, CoordinatorConfig}, {500}) /\ FragNew

FilterNext == \E io \in FilterIo : now + io.dt <= MaxFilterTime /\ Tick(io)

SpecFilter == FilterInit /\ [][FilterNext]_vars

\* the destination address of p is the broadcast address, the short address of
\* m or the extended address of m
ForThisNode(m, p) ==
    \/ p.destination.kind = "Short" /\ p.destination.addr = BROADCAST_SHORT
    \/ p.destination.kind = "Short" /\ m.short_addr.some /\ p.destination.addr = m.short_addr.v
    \/ p.destination.kind = "Extended" /\ p.destination.addr = m.address

\* handle_received left everything the frame could have changed as it was
DroppedWithoutEffect(m, e) ==
    /\ ~e.accepted
    /\ e.after_rx.ack_state = m.ack_state
    /\ e.after_rx.sync_state = m.sync_state
    /\ e.after_rx.assoc_state = m.assoc_state
    /\ e.after_rx.next_beacon = m.next_beacon
    /\ e.after_rx.tx_buff = m.tx_buff
    /\ e.after_rx.rx_buff = m.rx_buff

\* C28 as stated: a received frame whose destination PAN is neither the
\* broadcast PAN nor the PAN the node is Associated with, or whose destination
\* address is none of the broadcast address, the node's short address and the
\* node's extended address, is dropped without effect.
C28_FilteredFramesDropped ==
    [][ (ev'.op = "tick" /\ ev'.rx.some /\ ev'.rx.decodable
            /\ ( \/ /\ Packet_pan_id(ev'.rx.packet) # BROADCAST_PAN
                    /\ ~(mac.assoc_state.kind = "Associated"
                            /\ Packet_pan_id(ev'.rx.packet) = mac.assoc_state.pan)
                 \/ ~ForThisNode(mac, ev'.rx.packet) ))
        => DroppedWithoutEffect(mac, ev') ]_vars

\* C28 amended: a received frame whose destination PAN is not the broadcast
\* PAN and differs from the PAN of a node that is Associated, or whose
\* destination address is none of the broadcast address, the node's short
\* address and the node's extended address, is dropped without effect; a node
\* that is not Associated does not filter by PAN.
C28_FilteredFramesDroppedWhenAssociated ==
    [][ (ev'.op = "tick" /\ ev'.rx.some /\ ev'.rx.decodable
            /\ ( \/ /\ Packet_pan_id(ev'.rx.packet) # BROADCAST_PAN
                    /\ mac.assoc_state.kind = "Associated"
                    /\ Packet_pan_id(ev'.rx.packet) # mac.assoc_state.pan
                 \/ ~ForThisNode(mac, ev'.rx.packet) ))
        => DroppedWithoutEffect(mac, ev') ]_vars

\* a node Associated with the PAN of Coord was handed the Data frame
\* addressed to it on the foreign PAN and dropped it
C28_Witness ==
    /\ ev.op = "tick"
    /\ ev.rx.packet = DataFor(OwnOnForeignPan)
    /\ ~ev.accepted
    /\ ~mac.config.pan_coordinator
    /\ mac.assoc_state = Associated(Coord.pan)
    /\ ~mac.ack_state.pending
    /\ mac.rx_buff = <<>>

(***************************************************************************)
(* SpecPoll: one fragmentation manager over time.  The host transmits      *)
(* datagrams of two fragments, the MAC delivers an unfragmented datagram   *)
(* and the first fragment of a fragmented one, and the manager is polled   *)
(* with every PollOptions while the clock advances past the timeouts.      *)
(***************************************************************************)
MaxPollTime == 15000
MaxPollTag == 2
PollStep == 5000

PollOptionsSet == [can_tx : BOOLEAN, tx_addr : {AddrNone, AddrA, AddrB}]

FirstFragmentHeader == [Header_default EXCEPT !.frag = {FragHeader(100, 7, {})}]

PollAdvance ==
    /\ now + PollStep <= MaxPollTime
    /\ now' = now + PollStep
    /\ UNCHANGED <<macvars, fragvars, basevars, corevars>>

PollTransmit ==
    /\ frag_a.tag < MaxPollTag
    /\ \E r \in {Frag_transmit(frag_a, now, AddrB, Header_default, Datagram(100))} :
          /\ frag_a' = r.f
          /\ fev' = [op |-> "transmit", some |-> FALSE, err |-> r.err]
    /\ UNCHANGED <<frag_b, flog, now, macvars, basevars, corevars>>

PollReceive(hdr, d) ==
    /\ \E r \in {Frag_receive(frag_a, now, AddrB, hdr, d)} :
          /\ frag_a' = r.f
          /\ fev' = [op |-> "receive", some |-> FALSE, err |-> r.err]
    /\ UNCHANGED <<frag_b, flog, now, macvars, basevars, corevars>>

PollCall(opts) ==
    /\ \E r \in {Frag_poll(frag_a, now, opts)} :
          /\ frag_a' = r.f
          /\ fev' = [op |-> "poll", some |-> r.some, err |-> "Ok", opts |-> opts]
    /\ UNCHANGED <<frag_b, flog, now, macvars, basevars, corevars>>

PollInit == MacInit({NodeConfig}, {0}) /\ FragNew

PollNext ==
    \/ PollAdvance
    \/ PollTransmit
    \/ PollReceive(Header_default, Datagram(5))
    \/ PollReceive(FirstFragmentHeader, Datagram(MAX_FRAG_SIZE))
    \/ \E opts \in PollOptionsSet : PollCall(opts)

SpecPoll == PollInit /\ [][PollNext]_vars

\* slot i of f is in use and its timeout is non-zero and earlier than t
Expired(f, i, t) ==
    f.buffs[i].state # "None" /\ f.buffs[i].timeout # 0 /\ f.buffs[i].timeout < t

\* C31: every poll frees each slot in use whose timeout is non-zero and
\* earlier than now, whatever can_tx is; a slot whose timeout is zero or has
\* not passed is left as it was by that step (only the Tx slot the call hands
\* a fragment from changes); with can_tx = false the call returns no
\* fragment and advances no Tx slot.
C31_PollExpiresThenTransmits ==
    [][ (fev'.op = "poll" /\ now' = now) =>
          /\ \A i \in 1..FRAG_SLOTS :
                Expired(frag_a, i, now) => frag_a'.buffs[i].state = "None"
          /\ \A i \in 1..FRAG_SLOTS :
                (~Expired(frag_a, i, now) /\ frag_a'.buffs[i] # frag_a.buffs[i])
                    => /\ frag_a.buffs[i].state = "Tx"
                       /\ fev'.some
                       /\ fev'.opts.can_tx
                       /\ frag_a'.buffs[i] = FragBuffer_next(frag_a.buffs[i])
          /\ ~fev'.opts.can_tx =>
                /\ ~fev'.some
                /\ \A i \in 1..FRAG_SLOTS :
                      ~Expired(frag_a, i, now) => frag_a'.buffs[i] = frag_a.buffs[i] ]_vars

\* a poll with can_tx = false has freed an expired Tx slot and an expired
\* reassembly slot and left alone a Done slot whose timeout is zero
C31_Witness ==
    /\ fev.op = "poll"
    /\ ~fev.opts.can_tx
    /\ \E i, j, k \in 1..FRAG_SLOTS :
          /\ frag_a.buffs[i].state = "None" /\ frag_a.buffs[i].tag = 0
          /\ frag_a.buffs[i].len = 100 /\ frag_a.buffs[i].timeout # 0
          /\ frag_a.buffs[i].timeout < now /\ frag_a.buffs[i].offset = 0
          /\ frag_a.buffs[j].state = "None" /\ frag_a.buffs[j].tag = 7
          /\ frag_a.buffs[j].timeout # 0 /\ frag_a.buffs[j].timeout < now
          /\ frag_a.buffs[k].state = "Done" /\ frag_a.buffs[k].timeout = 0

(***************************************************************************)
(* SpecCsmaMac: the CSMA MAC of mac/csma.rs.  The host queues one Data     *)
(* frame with ack_request for Peer and ticks the MAC every 5 ms; the radio *)
(* completes or continues a transmission, reads a clear or a busy channel  *)
(* and delivers nothing, the ACK of the frame, or a Data frame of Peer.    *)
(***************************************************************************)
MaxCoreTime == 100
CoreStep == 5

CoreData == Packet_data(Peer, Own, 4, <<0, 1, 2>>, TRUE)

CoreIo ==
    [ dt : {CoreStep},
      rx : {NoRx, Rx(Packet_ack(CoreData)), Rx(DataFromPeer)},
      tx_done : BOOLEAN, rand : {0}, rssi : {-100, -60}, busy : {FALSE} ]

CoreTransmit(packet) ==
    /\ cev.op = "new"
    /\ \E c \in {Core_set_transmit(CoreCtx(core), packet)} :
          /\ core' = c.m
          /\ cev' = [CevNew EXCEPT !.op = "transmit", !.err = c.err]
    /\ UNCHANGED <<now, macvars, fragvars, basevars>>

CoreTick(io) ==
    /\ now + io.dt <= MaxCoreTime
    /\ core.state # "Panic"
    /\ now' = now + io.dt
    /\ \E c \in Csma_tick(CoreCtx(core), now + io.dt, io) :
          /\ core' = IF c.err = "Panic" THEN [c.m EXCEPT !.state = "Panic"] ELSE c.m
          /\ cev' = [op |-> "tick", err |-> c.err, handed |-> c.handed, ret |-> c.ret,
                     rx |-> io.rx,
                     sent |-> cev.sent + Cardinality({i \in 1..Len(c.handed) :
                                                        c.handed[i] = CoreData})]
    /\ UNCHANGED <<macvars, fragvars, basevars>>

CoreInit == MacInit({NodeConfig}, {0}) /\ FragNew

CoreNext ==
    \/ CoreTransmit(CoreData)
    \/ \E io \in CoreIo : CoreTick(io)

SpecCsmaMac == CoreInit /\ [][CoreNext]_vars

\* C32: in AwaitingAck, a tick with now > last_tick + ack_timeout_ms at which
\* the ACK of the outgoing packet is not received leaves AwaitingAck: with
\* retries left the packet is given to the radio again, otherwise tick
\* returns TransmitFailed and the MAC is Listening; the packet is
\* transmitted at most max_retries + 1 times.
C32_AckTimeoutLeavesAwaitingAck ==
    /\ [][ (core.state = "AwaitingAck" /\ cev'.op = "tick" /\ now' # now
              /\ now' > core.last_tick + core.config.ack_timeout_ms
              /\ ~(cev'.rx.some /\ Core_acked(core, cev'.rx.packet)))
           => /\ core'.state # "AwaitingAck"
              /\ core.retries > 0 => cev'.handed = core.tx_buffer
              /\ core.retries = 0 => cev'.err = "TransmitFailed" /\ core'.state = "Listening"
         ]_vars
    /\ [](cev.sent <= core.config.max_retries + 1)

(***************************************************************************)
(* SpecAckPair: a node or coordinator hears two Data frames with           *)
(* ack_request and different sequence numbers, at any ticks.               *)
(***************************************************************************)
MaxAckPairTime == 900

DataSeq(s) == Packet_data(Own, Peer, s, <<1>>, TRUE)

AckPairIo ==
    IoSet({50}, {NoRx, Rx(DataSeq(7)), Rx(DataSeq(8))}, {TRUE}, {0}, {RSSI_CLEAR})

AckPairInit == MacInit({NodeConfig, CoordinatorConfig}, {500}) /\ FragNew

AckPairNext ==
    \/ Receive
    \/ \E io \in AckPairIo : now + io.dt <= MaxAckPairTime /\ Tick(io)

SpecAckPair == AckPairInit /\ [][AckPairNext]_vars

\* C33 (the part that is a safety property): the ACK that is pending for an
\* accepted frame stays pending until a tick hands it to the radio;
\* accepting another frame with ack_request before that does not replace or
\* remove it.
C33_PendingAckNotOverwritten ==
    [][ mac.ack_state.pending =>
          \/ mac'.ack_state.pending /\ mac'.ack_state.packet = mac.ack_state.packet
          \/ /\ ev'.op = "tick"
             /\ \E i \in 1..Len(ev'.handed) : ev'.handed[i] = mac.ack_state.packet ]_vars

(***************************************************************************)
(* SpecCca: a node sends Data frames by CSMA with every backoff the        *)
(* default min_be allows (1 to 7 slots), one tick per slot, the channel    *)
(* read clear or busy at every assessment.                                 *)
(***************************************************************************)
MaxCcaTime == 3600
MaxCcaSeq == 1
MaxCcaRand == 6

CcaIo == IoSet({100}, {NoRx}, {TRUE}, 0..MaxCcaRand, {RSSI_CLEAR, RSSI_BUSY})

CcaInit == MacInit({NodeConfig}, {500}) /\ FragNew

CcaNext ==
    \/ mac.seq < MaxCcaSeq /\ Transmit(Peer, <<1>>, FALSE)
    \/ \E io \in CcaIo : now + io.dt <= MaxCcaTime /\ Tick(io)

SpecCca == CcaInit /\ [][CcaNext]_vars

\* the tick handed the frame of the pending CSMA attempt to the radio
CsmaHandedOver(m, e) ==
    /\ e.op = "tick"
    /\ m.csma_state.pending
    /\ \E i \in 1..Len(e.handed) : e.handed[i] = m.csma_state.packet

\* C34: a tick hands the frame of a CSMA attempt to the radio only if, since
\* the backoff of the attempt was armed, at least one clear-channel
\* assessment has read an RSSI at or below channel_clear_threshold.
C34_CsmaTransmitsAfterClearCca ==
    [][ (now' # now /\ CsmaHandedOver(mac, ev')) => ev.cca_clear >= 1 ]_vars

(***************************************************************************)
(* SpecLive: the TX queue drains.  The host queues up to two Data frames   *)
(* (with and without ack_request) during the first superframes and the     *)
(* MAC is ticked once per slot; every tick that is due is taken (weak      *)
(* fairness of the tick), the radio completes every transmission before    *)
(* the next tick and reads the channel clear or busy.                      *)
(***************************************************************************)
MaxLiveTime == 30000
MaxLiveSeq == 2
LiveStartBy == 1500

LiveIo == IoSet({100}, {NoRx}, {TRUE}, {0, 1}, {RSSI_CLEAR, RSSI_BUSY})

LiveInit == MacInit({NodeConfig, CoordinatorConfig}, {500}) /\ FragNew

LiveTick == \E io \in LiveIo : now + io.dt <= MaxLiveTime /\ Tick(io)

LiveNext ==
    \/ \E ack \in BOOLEAN :
          mac.seq < MaxLiveSeq /\ now <= LiveStartBy /\ Transmit(Peer, <<1>>, ack)
    \/ LiveTick

SpecLive == LiveInit /\ [][LiveNext]_vars /\ WF_vars(LiveTick)

\* the TX queue of m holds a frame with sequence number s
InTxQueue(m, s) == \E i \in 1..Len(m.tx_buff) : m.tx_buff[i].packet.seq = s

\* without receptions every frame queued during the first superframes leaves
\* the TX queue and every pending CSMA attempt ends
TxQueueDrainsWithoutReceptions ==
    /\ \A s \in 0..(MaxLiveSeq - 1) :
          (InTxQueue(mac, s) /\ now <= LiveStartBy) ~> ~InTxQueue(mac, s)
    /\ (mac.csma_state.pending /\ now <= MaxLiveTime - 10000) ~> ~mac.csma_state.pending

(***************************************************************************)
(* SpecLiveRx: as SpecLive for a coordinator with one frame without        *)
(* ack_request queued right after construction, a clear channel and        *)
(* backoffs of one slot, while Peer sends Data frames with ack_request in  *)
(* any slots.                                                              *)
(***************************************************************************)
MaxLiveRxTime == 4600

LiveRxIo ==
    IoSet({100}, {NoRx, Rx(DataAckFromPeer)}, {TRUE}, {0}, {RSSI_CLEAR})

LiveRxInit == MacInit({CoordinatorConfig}, {500}) /\ FragNew

LiveRxTick == \E io \in LiveRxIo : now + io.dt <= MaxLiveRxTime /\ Tick(io)

LiveRxNext ==
    \/ ev.op = "new" /\ Transmit(Peer, <<1>>, FALSE)
    \/ LiveRxTick

SpecLiveRx == LiveRxInit /\ [][LiveRxNext]_vars /\ WF_vars(LiveRxTick)

\* the frame queued at construction leaves the TX queue
HeadFrameLeaves ==
    InTxQueue(mac, 0) ~> ~InTxQueue(mac, 0)

\* t lies in the first slot of a superframe of m
FirstSlot(m, t) == calculate_rsn(m.config, t, m.sync_offset) = 0

MaxAssocLossTime == 23600

AssocLossIo ==
    IoSet({100}, {NoRx, Rx(BeaconFromCoord), Rx(AssocRespFrom(Coord))},
          {TRUE}, {0}, {RSSI_CLEAR})

AssocLossInit == MacInit({NodeConfig}, {500}) /\ FragNew

AssocLossNext ==
    \E io \in AssocLossIo :
        /\ now + io.dt <= MaxAssocLossTime
        /\ (io.rx.some /\ io.rx.packet.frame_type = "Beacon")
              => (mac.seq = 0 /\ now + io.dt <= MaxFirstBeaconTime)
        /\ (io.rx.some /\ io.rx.packet.frame_type = "MacCommand")
              => mac.assoc_state.kind = "Pending"
        /\ Tick(io)

SpecAssocLoss == AssocLossInit /\ [][AssocLossNext]_vars

\* C36: on a node that is not a PAN coordinator, at the end of every tick
\* assoc_state = Associated implies sync_state = Synced, also when the
\* AssociationResponse is accepted after synchronisation was lost.
C36_AssociatedImpliesSynced ==
    (ev.op = "tick" /\ ~mac.config.pan_coordinator /\ mac.assoc_state.kind = "Associated")
        => mac.sync_state.synced


(***************************************************************************)
(* SpecReassembly: one fragmentation manager reassembling datagrams of two *)
(* fragments.  The MAC delivers the fragments of the datagrams of AddrB in *)
(* any order and any number of times, the host transmits, polls and pops,  *)
(* and the clock advances past the reassembly timeout.                     *)
(***************************************************************************)
MaxReasmTime == 12000
ReasmStep == 11000
MaxReasmPopped == 2
MaxReasmTag == 1
ReasmTags == {7}

\* the datagram AddrB sends under tag, and its fragment index as AddrB's
\* manager hands it out
ReasmDatagram(tag) == Datagram(MAX_FRAG_SIZE + tag)

ReasmFragment(tag, index) ==
    frag(init_tx(AddrA, Header_default, tag, ReasmDatagram(tag)), index)

ReasmReceive(tag, index) ==
    PollReceive(ReasmFragment(tag, index).header,
                frag_data(ReasmDatagram(tag), ReasmFragment(tag, index).offset,
                          ReasmFragment(tag, index).len))

ReasmAdvance ==
    /\ now + ReasmStep <= MaxReasmTime
    /\ now' = now + ReasmStep
    /\ UNCHANGED <<macvars, fragvars, basevars, corevars>>

ReasmPop ==
    /\ Len(flog.popped) < MaxReasmPopped
    /\ \E r \in {Frag_pop(frag_a)} :
          /\ frag_a' = r.f
          /\ fev' = [op |-> "pop", some |-> r.some, err |-> "Ok"]
          /\ flog' = IF r.some
                     THEN [flog EXCEPT !.popped =
                              Append(@, [addr |-> r.addr, header |-> r.header, data |-> r.data])]
                     ELSE flog
    /\ UNCHANGED <<frag_b, now, macvars, basevars, corevars>>

ReasmInit == MacInit({NodeConfig}, {0}) /\ FragNew

ReasmNext ==
    \/ ReasmAdvance
    \/ \E tag \in ReasmTags : \E index \in {0, 1} : ReasmReceive(tag, index)
    \/ (frag_a.tag < MaxReasmTag /\ PollTransmit)
    \/ PollCall(PollOptions_default)
    \/ ReasmPop

SpecReassembly == ReasmInit /\ [][ReasmNext]_vars

\* C37: a reassembly slot in state Done stays as it is until pop returns it:
\* no poll, receive or transmit frees or overwrites it, and the reassembly
\* timeout does not apply to it any more.
C37_DoneKeptUntilPopped ==
    [][ \A i \in 1..FRAG_SLOTS :
          frag_a.buffs[i].state = "Done"
              => \/ frag_a'.buffs[i] = frag_a.buffs[i]
                 \/ /\ fev'.op = "pop" /\ fev'.some
                    /\ i = done_slot(frag_a)
                    /\ flog'.popped = Append(flog.popped,
                                             [addr |-> frag_a.buffs[i].addr,
                                              header |-> frag_a.buffs[i].header,
                                              data |-> FragBuffer_data(frag_a.buffs[i])]) ]_vars

\* C38: pop returns each datagram at most once, also when fragments of it
\* are delivered again before or after its reassembly completed.
C38_PoppedAtMostOnce ==
    \A i, j \in 1..Len(flog.popped) :
        flog.popped[i].data = flog.popped[j].data => i = j


(***************************************************************************)
(* SpecAckFull: acknowledgements with a full RX queue.  Peer sends Data    *)
(* frames with ack_request, one per tick at most, to a host that pops the  *)
(* RX queue now and then or not at all.                                    *)
(***************************************************************************)
MaxAckFullTime == 1400

AckFullIo == IoSet({50}, {NoRx, Rx(DataAckFromPeer)}, {TRUE}, {0}, {RSSI_CLEAR})

AckFullInit == MacInit({NodeConfig, CoordinatorConfig}, {500}) /\ FragNew

AckFullNext ==
    \/ Receive
    \/ \E io \in AckFullIo : now + io.dt <= MaxAckFullTime /\ Tick(io)

SpecAckFull == AckFullInit /\ [][AckFullNext]_vars

\* C39: the MAC acknowledges a Data frame only if it stored it in the RX
\* queue: a Data frame with ack_request that is dropped because the RX queue
\* is full arms no ACK (ack_state is as the previous call left it).
C39_AckOnlyForStoredData ==
    [][ ( /\ ev'.op = "tick" /\ now' # now
          /\ ev'.accepted
          /\ ev'.rx.packet.frame_type = "Data"
          /\ ev'.rx.packet.ack_request
          /\ Len(mac.rx_buff) = QUEUE_CAPACITY )
        => /\ ev'.after_rx.rx_buff = mac.rx_buff
           /\ ev'.after_rx.ack_state = mac.ack_state ]_vars


(***************************************************************************)
(* SpecOffset: a node whose coordinator's beacons come early.  A node      *)
(* constructed at 0 ms or at 500 ms is ticked once per slot; the radio     *)
(* delivers beacons of Coord at any tick.  sync_offset is a u64: where the *)
(* model's sync_offset is negative the subtraction of the code has         *)
(* underflowed (a panic with overflow checks, 2^64 - x without), and the   *)
(* behaviour is not followed further.                                      *)
(***************************************************************************)
MaxOffsetTime == 3800

OffsetIo == IoSet({100}, {NoRx, Rx(BeaconFromCoord)}, {TRUE}, {0}, {RSSI_CLEAR})

OffsetInit == MacInit({NodeConfig}, {0, 500}) /\ FragNew

OffsetNext ==
    \E io \in OffsetIo :
        /\ now + io.dt <= MaxOffsetTime
        /\ mac.sync_offset >= 0
        /\ Tick(io)

SpecOffset == OffsetInit /\ [][OffsetNext]_vars

\* the beacon a tick accepted came from the parent of the Synced node m
\* earlier than expected, by a tenth of the superframe at most
EarlyParentBeacon(m, e, t) ==
    /\ e.op = "tick" /\ e.accepted /\ e.rx.packet.frame_type = "Beacon"
    /\ ~m.config.pan_coordinator /\ m.sync_state.synced
    /\ e.rx.packet.source = m.sync_state.parent
    /\ RemI64(t - m.next_beacon, superframe_duration(m.config)) < 0
    /\ Abs(RemI64(t - m.next_beacon, superframe_duration(m.config)))
          <= superframe_duration(m.config) \div 10

\* C40: sync_offset never underflows: for every accepted early beacon of the
\* parent the correction, half of |delta|, is at most the current
\* sync_offset, whatever the time of the first synchronisation.
C40_SyncOffsetNoUnderflow ==
    [][ EarlyParentBeacon(mac, ev', now')
        => /\ Abs(RemI64(now' - mac.next_beacon, superframe_duration(mac.config))) \div 2
                 <= mac.sync_offset
           /\ ev'.after_rx.sync_offset >= 0 ]_vars

====
